---- MODULE Spec2Model ----
(***************************************************************************)
(* State-machine model of ClusteredMarkersLayer                            *)
(* (src/clusteredMarkersLayer.ts): the marker store, the options, the host *)
(* clustering flags, the popup / carousel controller with its per-frame    *)
(* repositioning subscription, the camera-height clustering gate, the      *)
(* decluster zoom sessions and the listener bookkeeping of dispose().      *)
(*                                                                         *)
(* The host engine (camera, picking, clustering, postRender event, window) *)
(* is the environment: its answers are nondeterministic inputs.            *)
(***************************************************************************)
EXTENDS Integers, Sequences, FiniteSets, TLC

\* ------------------------------------------------------------------ bounds

\* Entity ids the data source hands out over a run (setData allocates fresh ones).
MaxEntities == 4
\* Distinct world positions markers may have (equal place = co-located).
MaxPlaces == 2
\* Largest finite pixel separation the projection reports.
MaxPx == 3
\* Largest maxZoomIters a caller configures.
MaxIters == 2
\* Decluster sessions started over a run (cluster clicks that reach a zoom).
MaxSessions == 1
\* Decluster sessions in progress at one time where cluster clicks may overlap.
MaxOverlap == 2
\* Threshold crossings of the altitude samples over a run.
MaxCrossings == 2
\* dispose() calls over a run.
MaxDisposeCalls == 2
\* Altitude samples the observer of the gate counts (it stops counting there).
MaxSamples == 3
\* Clusters of one layout of the host engine.
MaxClusterKeys == 2
\* zoomTo() activations awaiting the host's viewer.zoomTo at one time.
MaxZoomTos == 2
\* Largest pixelRange a caller supplies.
MaxPixelRange == 2

\* -------------------------------------------------------- program constants

\* defaults.minCameraHeightForClustering
DefaultMinCameraHeight == 15
\* defaults.maxZoomIters
DefaultMaxZoomIters == 6
\* constructor / configureClustering: minSeparationPx = pixelRange + 4
SeparationMargin == 4
\* zoomToSeparate: stall threshold of the improvement in separation
StallThresholdPx == 1
\* defaults.minimumClusterSize
DefaultMinimumClusterSize == 2
\* defaults.pixelRange
DefaultPixelRange == 200
\* defaults.minSeparationPx
\* mixedExtraZoomFactor 0.85 and singleExtraZoomFactor 0.9, in hundredths
DefaultMixedExtraZoomFactor == 85
DefaultSingleExtraZoomFactor == 90
\* the padding of a rectangle without extent (0.0005 degrees) and of the rectangle of
\* zoomToEntitiesOnce (0.01 degrees), in millionths of a degree
DegeneratePad == 500
OncePad == 10000
DefaultMinSeparationPx == 64
\* `undefined`, for the optional entity references (popupAnchor, carousel.anchor)
None == 0

\* --------------------------------------------------------------- domains

EntityIds == 1..MaxEntities
Places == 1..MaxPlaces
ClusterKeys == 1..MaxClusterKeys
\* Number.POSITIVE_INFINITY, as minPixelSeparation returns it
Infinity == MaxPx + 1
PxSamples == 0..Infinity
\* camera altitudes around the thresholds in use
Heights == (DefaultMinCameraHeight - 1)..(DefaultMinCameraHeight + 2)
\* window.devicePixelRatio values
DprValues == {1, 2}

VARIABLES
  options,            \* this.options (the fields the engine reads)
  clustering,         \* this.dataSource.clustering: enabled, pixelRange, minimumClusterSize,
                      \*   listeners (clusterStyler registrations), dirty (re-cluster pending)
  hostClusters,       \* the host's current cluster layout: key -> members
  clusterMembers,     \* this.clusterMembers
  billboards,         \* the billboard of each cluster of the layout: shown, the rows of
                      \*   its badge image, its height
  store,              \* markerIds, dataSource.entities, the data source's attachment,
                      \*   every created entity's position, the next fresh entity id
  clickHandler,       \* this.clickHandler: "undefined" | "live" | "destroyed"
  popup,              \* popupEl, its display, popupAnchor, carousel, popupTrackUnsub,
                      \*   trackingAttached, the popup tick listeners on scene.postRender
  gateSub,            \* camera-height listeners on scene.postRender, and postRenderUnsub
  clusteringRuntimeEnabled,
  cameraHeight,       \* altitude of viewer.camera
  win,                \* window: the layer's keydown / resize / media-query listeners,
                      \*   devicePixelRatio; and this.dpi
  sessions,           \* activations of the cluster-click zoom (zoomToSeparate / zoomToEntitiesOnce)
  disposal,           \* dispose(): calls made, activations suspended at the await, activations ended
  threw,              \* an operation raised an error to its caller
  zoomTos,            \* zoomTo(): activations awaiting viewer.zoomTo, and whether one of
                      \*   them rejected its promise
  gateLog,            \* observation of the gate: previous sample's desired state, crossings,
                      \*   toggles, forced refreshes
  lastOp              \* the operation that produced this state: its name, its input,
                      \*   and the form the popup had before it

vars == << options, clustering, hostClusters, clusterMembers, billboards, store, clickHandler,
           popup, gateSub, clusteringRuntimeEnabled, cameraHeight, win, sessions,
           disposal, threw, zoomTos, gateLog, lastOp >>

\* ---------------------------------------------------------------- helpers

Min(a, b) == IF a < b THEN a ELSE b
Max(a, b) == IF a > b THEN a ELSE b

RECURSIVE SetToSeq(_)
\* the members of a finite set of numbers, in increasing order
SetToSeq(S) ==
  IF S = {} THEN << >>
  ELSE LET m == CHOOSE x \in S : \A y \in S : x <= y
       IN << m >> \o SetToSeq(S \ {m})

RECURSIVE RemoveFirst(_, _)
\* Event.removeEventListener: the first registration of the listener goes, if any
RemoveFirst(seq, x) ==
  IF seq = << >> THEN << >>
  ELSE IF Head(seq) = x THEN Tail(seq)
  ELSE << Head(seq) >> \o RemoveFirst(Tail(seq), x)

\* ---------------------------------------------------------------- options

\* constructor: const defaults
\* defaults.badgeStyle: the numbers the badge height depends on, in tenths of a CSS
\* pixel (fontPx: 12, paddingY: 8, rowGapPx: 4)
DefaultBadgeStyle == [ fontPx |-> 120, paddingY |-> 80, rowGapPx |-> 40 ]

Defaults ==
  [ enabled |-> TRUE,
    pixelRange |-> DefaultPixelRange,
    minimumClusterSize |-> DefaultMinimumClusterSize,
    autoZoom |-> TRUE,
    ensureDeclusterOnClick |-> TRUE,
    minSeparationPx |-> DefaultMinSeparationPx,
    maxZoomIters |-> DefaultMaxZoomIters,
    popupEnabled |-> TRUE,
    minCameraHeightForClustering |-> DefaultMinCameraHeight,
    badgeStyle |-> DefaultBadgeStyle,
    mixedExtraZoomFactor |-> DefaultMixedExtraZoomFactor,
    singleExtraZoomFactor |-> DefaultSingleExtraZoomFactor ]

\* configureClustering() called without an argument
NoOpts == << >>

\* { ...base, ...opts }
MergeOptions(base, opts) ==
  [ k \in DOMAIN base |-> IF k \in DOMAIN opts THEN opts[k] ELSE base[k] ]

\* JS truthiness of an optional numeric option: present and not 0
TruthyOpt(opts, k) == k \in DOMAIN opts /\ opts[k] # 0

\* constructor: this.options
ConstructOptions(opts) ==
  LET merged == MergeOptions(Defaults, opts)
  IN IF TruthyOpt(opts, "minSeparationPx") THEN merged
     ELSE [ merged EXCEPT !.minSeparationPx = merged.pixelRange + SeparationMargin ]

\* configureClustering: this.options
ConfigureOptions(cur, opts) ==
  LET merged == MergeOptions(cur, opts)
  IN IF TruthyOpt(opts, "pixelRange") /\ ~TruthyOpt(opts, "minSeparationPx")
     THEN [ merged EXCEPT !.minSeparationPx = merged.pixelRange + SeparationMargin ]
     ELSE merged

\* ------------------------------------------------------------------ popup

\* the popup before ensurePopupEl has run
\* this.carousel when it is undefined
NoCarousel == [ set |-> FALSE, entities |-> << >>, index |-> 0, anchor |-> None ]

NoPopup ==
  [ el |-> FALSE, display |-> "none", anchor |-> None, carousel |-> NoCarousel,
    at |-> None, unsub |-> None, attached |-> FALSE, ticks |-> << >> ]

ensurePopupEl(p) ==
  IF p.el THEN p ELSE [ p EXCEPT !.el = TRUE, !.display = "none" ]

\* the anchor of the popup's current form (carousel?.anchor ?? popupAnchor)
CurrentAnchor(p) ==
  IF p.carousel.set THEN p.carousel.anchor ELSE p.anchor

\* positionPopupAt: the popup moves to the entity's screen projection
positionPopupAt(p, entity) ==
  IF ~p.el THEN p ELSE [ p EXCEPT !.at = entity ]

disablePopupTracking(p) ==
  LET q == IF p.unsub # None
           THEN [ p EXCEPT !.ticks = RemoveFirst(p.ticks, p.unsub),
                           !.attached = FALSE ]
           ELSE p
  IN [ q EXCEPT !.unsub = None, !.attached = FALSE ]

enablePopupTracking(p) ==
  IF p.attached THEN p
  ELSE LET q == disablePopupTracking(p)
           anchor == CurrentAnchor(q)
       IN IF anchor = None THEN q
          ELSE [ q EXCEPT !.ticks = Append(q.ticks, anchor),
                          !.unsub = anchor,
                          !.attached = TRUE ]

showPopupAt(p, entity) ==
  LET q == ensurePopupEl(p)
      r == [ q EXCEPT !.carousel = NoCarousel, !.anchor = entity, !.display = "block" ]
  IN enablePopupTracking(positionPopupAt(r, entity))

hidePopup(p) ==
  LET q == [ p EXCEPT !.display = IF p.el THEN "none" ELSE p.display,
                      !.carousel = NoCarousel,
                      !.anchor = None ]
  IN disablePopupTracking(q)

\* the truthiness of a payload value
Truthy(v) ==
  \/ v.type = "string" /\ v.chars # << >>
  \/ v.type = "number" /\ v.num # 0

\* buildDefaultPopupHtml raises a TypeError on an entity whose __popup.subState is a
\* non-zero number: evt['subState'].replace is not a function
buildDefaultPopupHtmlRaises(entity) ==
  LET v == store.popup[entity].subState
  IN Truthy(v) /\ v.type # "string"

\* renderCarouselSlide raises: entities[index] is undefined, or its HTML cannot be built
SlideRaises(p) ==
  /\ p.carousel.set /\ p.el
  /\ LET i == p.carousel.index + 1
     IN \/ i \notin DOMAIN p.carousel.entities
        \/ buildDefaultPopupHtmlRaises(p.carousel.entities[i])

\* renderCarouselSlide: the slide's HTML is built, then the popup is repositioned
renderCarouselSlide(p) ==
  IF ~p.carousel.set \/ ~p.el \/ SlideRaises(p) THEN p
  ELSE positionPopupAt(p, p.carousel.anchor)

\* showCarouselPopup that does not clear popupAnchor
showCarouselPopupKeepAnchor(p, entities, anchor) ==
  LET q == ensurePopupEl(p)
      r == [ q EXCEPT !.carousel = [ set |-> TRUE, entities |-> entities, index |-> 0,
                                     anchor |-> anchor ],
                      !.display = "block" ]
  IN IF SlideRaises(r) THEN r
     ELSE enablePopupTracking(positionPopupAt(renderCarouselSlide(r), anchor))

showCarouselPopup(p, entities, anchor) ==
  LET q == ensurePopupEl(p)
      r == [ q EXCEPT !.carousel = [ set |-> TRUE, entities |-> entities, index |-> 0,
                                     anchor |-> anchor ],
                      !.anchor = None,
                      !.display = "block" ]
  IN IF SlideRaises(r) THEN r
     ELSE enablePopupTracking(positionPopupAt(renderCarouselSlide(r), anchor))

\* the previous index without the wrap-around
PrevIndexNoWrap(index, n) == index - 1

\* carouselPrev: (index - 1 + n) % n
PrevIndex(index, n) == (index - 1 + n) % n
\* carouselNext: (index + 1) % n
NextIndex(index, n) == (index + 1) % n

carouselPrev(p) ==
  IF ~p.carousel.set THEN p
  ELSE LET n == Len(p.carousel.entities)
       IN renderCarouselSlide(
            [ p EXCEPT !.carousel.index = PrevIndex(p.carousel.index, n) ])

carouselNext(p) ==
  IF ~p.carousel.set THEN p
  ELSE LET n == Len(p.carousel.entities)
       IN renderCarouselSlide(
            [ p EXCEPT !.carousel.index = NextIndex(p.carousel.index, n) ])

\* the form of the popup: PopupState of the data model
PopupForm(p) ==
  IF p.carousel.set THEN "Carousel"
  ELSE IF p.anchor # None THEN "Single"
  ELSE "Empty"

\* what lastOp records of an operation that runs in the current state
Did(name, input) ==
  [ name |-> name, input |-> input, before |-> PopupForm(popup), calls |-> << >> ]

\* the same, for an operation that invoked the callbacks of calls (in that order)
DidCalling(name, input, calls) == [ Did(name, input) EXCEPT !.calls = calls ]

\* one invocation of options.onClusterClick / options.onMarkerClick
Call(callback, members) == [ callback |-> callback, members |-> members ]

\* ---------------------------------------------------------- classification

\* a value of a popup payload (string | number | null, or a missing key); a string is
\* the sequence of its characters
Str(chars) == [ type |-> "string", chars |-> chars, num |-> 0 ]
Num(n) == [ type |-> "number", chars |-> << >>, num |-> n ]
Null == [ type |-> "null", chars |-> << >>, num |-> 0 ]
Undefined == [ type |-> "undefined", chars |-> << >>, num |-> 0 ]

UpperChars == << "A", "B", "C", "D", "E", "F", "G", "H", "I", "J", "K", "L", "M", "N", "O", "P", "Q", "R", "S", "T", "U", "V", "W", "X", "Y", "Z" >>
LowerChars == << "a", "b", "c", "d", "e", "f", "g", "h", "i", "j", "k", "l", "m", "n", "o", "p", "q", "r", "s", "t", "u", "v", "w", "x", "y", "z" >>
Digits == << "0", "1", "2", "3", "4", "5", "6", "7", "8", "9" >>
WhiteSpace == { " ", "\t", "\n" }

\* v ?? d
Coalesce(v, d) == IF v.type \in { "null", "undefined" } THEN d ELSE v

\* String(v), for a string or a one-digit number
StringOf(v) ==
  IF v.type = "string" THEN v.chars
  ELSE IF v.type = "number" THEN << Digits[v.num + 1] >>
  ELSE IF v.type = "null" THEN << "n", "u", "l", "l" >>
  ELSE << "u", "n", "d", "e", "f", "i", "n", "e", "d" >>

RECURSIVE TrimStart(_)
TrimStart(cs) ==
  IF cs # << >> /\ Head(cs) \in WhiteSpace THEN TrimStart(Tail(cs)) ELSE cs

RECURSIVE TrimEnd(_)
TrimEnd(cs) ==
  IF cs # << >> /\ cs[Len(cs)] \in WhiteSpace
  THEN TrimEnd(SubSeq(cs, 1, Len(cs) - 1))
  ELSE cs

\* String.prototype.trim
Trim(cs) == TrimEnd(TrimStart(cs))

LowerOf(c) ==
  IF \E i \in 1..Len(UpperChars) : UpperChars[i] = c
  THEN LowerChars[CHOOSE i \in 1..Len(UpperChars) : UpperChars[i] = c]
  ELSE c

\* String.prototype.toLowerCase
ToLowerCase(cs) == [ i \in 1..Len(cs) |-> LowerOf(cs[i]) ]

\* the ClusterCat values
AllCats == { "L", "D", "PL", "SI", "LI", "MI", "W", "ES" }

\* classify: the subState table of the switch
SubStateTable ==
  { << << "w", "o", "r", "k", "i", "n", "g" >>, "W" >>,
    << << "p", "r", "o", "d", "u", "c", "t", "i", "v", "e", " ", "i", "d", "l", "i", "n", "g" >>, "PL" >>,
    << << "s", "h", "o", "r", "t", " ", "i", "d", "l", "i", "n", "g" >>, "SI" >>,
    << << "m", "e", "d", "i", "u", "m", " ", "i", "d", "l", "i", "n", "g" >>, "MI" >>,
    << << "l", "o", "n", "g", " ", "i", "d", "l", "i", "n", "g" >>, "LI" >>,
    << << "e", "n", "g", "i", "n", "e", " ", "s", "t", "o", "p" >>, "ES" >> }

\* classify without the trim of segmentDesc
classifyUntrimmed(pd) ==
  LET seg == ToLowerCase(StringOf(Coalesce(pd.segmentDesc, Str(<< >>))))
      sub == ToLowerCase(Trim(StringOf(Coalesce(pd.subState, Str(<< >>)))))
  IN IF seg = << "l", "o", "a", "d" >> THEN "L"
     ELSE IF seg = << "d", "u", "m", "p" >> THEN "D"
     ELSE IF \E row \in SubStateTable : row[1] = sub
          THEN (CHOOSE row \in SubStateTable : row[1] = sub)[2]
          ELSE "SI"

classify(pd) ==
  LET seg == ToLowerCase(Trim(StringOf(Coalesce(pd.segmentDesc, Str(<< >>)))))
      sub == ToLowerCase(Trim(StringOf(Coalesce(pd.subState, Str(<< >>)))))
  IN IF seg = << "l", "o", "a", "d" >> THEN "L"
     ELSE IF seg = << "d", "u", "m", "p" >> THEN "D"
     ELSE IF \E row \in SubStateTable : row[1] = sub
          THEN (CHOOSE row \in SubStateTable : row[1] = sub)[2]
          ELSE "SI"

\* setData: the payload stored on the entity (__popup): segmentDesc and subState
\* default to null
StoredPayload(popupData) ==
  [ segmentDesc |-> Coalesce(popupData.segmentDesc, Null),
    subState |-> Coalesce(popupData.subState, Null) ]

\* ------------------------------------------------------------ marker store

\* the store of a layer whose data source holds nothing yet
EmptyStore ==
  [ markerIds |-> {}, entities |-> {}, attached |-> TRUE, place |-> << >>, popup |-> << >>,
    cat |-> << >>, dotColor |-> << >> ]

\* isFinite(lat) && isFinite(lng)
FinitePoint(m) == m.latFinite /\ m.lngFinite

\* setData: __dotColor = String(marker.options.color || '#000000')
DotColorOf(color) == IF color = "" THEN "#000000" ELSE color

RECURSIVE AddMarkers(_, _)
\* setData: the loop over the markers; every entity added gets a fresh id
AddMarkers(st, ms) ==
  IF ms = << >> THEN st
  ELSE LET m == Head(ms)
           id == Len(st.place) + 1
           pd == StoredPayload(m.popupData)
       IN IF ~FinitePoint(m) THEN AddMarkers(st, Tail(ms))
          ELSE AddMarkers([ st EXCEPT !.entities = @ \cup {id},
                                      !.markerIds = @ \cup {id},
                                      !.place = Append(@, m.place),
                                      !.popup = Append(@, pd),
                                      !.cat = Append(@, classify(pd)),
                                      !.dotColor = Append(@, DotColorOf(m.color)) ],
                          Tail(ms))

\* setData without markerIds.clear() and entities.removeAll()
SetDataStoreKeeping(st, ms) == AddMarkers(st, ms)

\* setData: markerIds.clear(); entities.removeAll(); then the loop
SetDataStore(st, ms) ==
  AddMarkers([ st EXCEPT !.markerIds = {}, !.entities = {} ], ms)

\* entities setData(ms) creates
CountFinite(ms) == Cardinality({ i \in 1..Len(ms) : FinitePoint(ms[i]) })

\* forceClusterRefresh: pixelRange is toggled and restored, which makes the host re-cluster
forceClusterRefresh(c) == [ c EXCEPT !.dirty = TRUE ]

\* Event.removeEventListener on a counted registration: no-op when none is left
RemoveListener(n) == Max(0, n - 1)

\* ------------------------------------------------------- camera-height gate

\* updateClusteringByCameraHeight: shouldCluster
ShouldCluster(height, opts) == height >= opts.minCameraHeightForClustering

\* a gate without the state comparison: it acts on every sample
GateActsAlways(should, applied) == TRUE

\* updateClusteringByCameraHeight: whether the gate acts on this sample
GateActs(should, applied) == should # applied

\* updateClusteringByCameraHeight: clustering.enabled = shouldCluster && options.enabled
GateEnabled(should, opts) == should /\ opts.enabled

\* updateClusteringByCameraHeight on the host clustering c with applied state
\* `applied` (clusteringRuntimeEnabled): the clustering and the applied state after it,
\* and whether it called forceClusterRefresh
updateClusteringByCameraHeight(c, height, applied, opts) ==
  LET should == ShouldCluster(height, opts)
  IN IF GateActs(should, applied)
     THEN [ clustering |-> forceClusterRefresh([ c EXCEPT !.enabled = GateEnabled(should, opts) ]),
            applied |-> should,
            refreshed |-> TRUE ]
     ELSE [ clustering |-> c, applied |-> applied, refreshed |-> FALSE ]

\* what an observer of the render notifications records: the side of the threshold of
\* the first and of the previous altitude sample, the samples seen (counted up to
\* MaxSamples), the crossings between consecutive samples, the changes of the applied
\* state and the forced refreshes of the gate
NoGateLog ==
  [ prev |-> "none", first |-> "none", samples |-> 0, crossings |-> 0, toggles |-> 0,
    refreshes |-> 0 ]

Side(should) == IF should THEN "high" ELSE "low"

ObserveGate(log, should, applied, step) ==
  [ prev |-> Side(should),
    first |-> IF log.first = "none" THEN Side(should) ELSE log.first,
    samples |-> Min(log.samples + 1, MaxSamples),
    crossings |-> IF log.prev # "none" /\ log.prev # Side(should)
                  THEN log.crossings + 1 ELSE log.crossings,
    toggles |-> IF step.applied # applied THEN log.toggles + 1 ELSE log.toggles,
    refreshes |-> IF step.refreshed THEN log.refreshes + 1 ELSE log.refreshes ]

\* ---------------------------------------------------------- decluster zoom

\* click handler: nonZero > 1, over the members' categories
Mixed(st, members) ==
  Cardinality({ st.cat[members[i]] : i \in 1..Len(members) }) > 1

\* the east-west position of a place, in millionths of a degree
PlaceDegrees(place) == place * 1000000

\* rectangleFromEntities: the east-west extent of the rectangle around the members,
\* in millionths of a degree; a rectangle without extent is padded on each side
rectangleFromEntities(st, members) ==
  LET at == { PlaceDegrees(st.place[members[i]]) : i \in 1..Len(members) }
      west == CHOOSE x \in at : \A y \in at : x <= y
      east == CHOOSE x \in at : \A y \in at : x >= y
  IN IF west = east THEN 2 * DegeneratePad ELSE east - west

\* shrinkRectangle: the extent of the rectangle kept, factor being in hundredths
shrinkRectangle(extent, factor) == (extent * factor) \div 100

\* LEFT_CLICK, cluster branch: perStep
PerStep(st, members, opts) ==
  IF Mixed(st, members) THEN opts.mixedExtraZoomFactor ELSE opts.singleExtraZoomFactor

\* a zoomToSeparate activation right after its first flyToRectangle call
NewSeparate(st, members, opts) ==
  [ kind |-> "separate", pc |-> "fly0", members |-> members,
    targetMinPx |-> opts.minSeparationPx, maxSteps |-> opts.maxZoomIters,
    perStepFactor |-> PerStep(st, members, opts),
    rect0 |-> rectangleFromEntities(st, members),
    rect |-> rectangleFromEntities(st, members),
    step |-> 0, prevMinPx |-> 0, minPx |-> 0, shrinks |-> 0,
    flies |-> 1, refreshes |-> 0, seenPx |-> 0, improving |-> TRUE,
    events |-> << "fly" >> ]

\* a zoomToEntitiesOnce activation right after its flyToRectangle call
NewOnce(st, members, opts) ==
  [ kind |-> "once", pc |-> "flyOnce", members |-> members,
    targetMinPx |-> opts.minSeparationPx, maxSteps |-> opts.maxZoomIters,
    perStepFactor |-> None,
    rect0 |-> rectangleFromEntities(st, members),
    rect |-> rectangleFromEntities(st, members) + 2 * OncePad,
    step |-> 0, prevMinPx |-> 0, minPx |-> 0, shrinks |-> 0,
    flies |-> 1, refreshes |-> 0, seenPx |-> 0, improving |-> TRUE,
    events |-> << "fly" >> ]

\* the loop bound off by one: step <= maxSteps
LoopContinuesInclusive(step, maxSteps) == step <= maxSteps

\* zoomToSeparate: for (...; step < maxSteps; ...)
LoopContinues(step, maxSteps) == step < maxSteps

\* zoomToSeparate: if (minPx === Infinity || minPx >= targetMinPx) break
SeparationReached(minPx, targetMinPx) == minPx = Infinity \/ minPx >= targetMinPx

\* zoomToSeparate: if (minPx - prevMinPx < 1) break
Stalled(minPx, prevMinPx) == minPx - prevMinPx < StallThresholdPx

\* zoomToSeparate: the head of one loop iteration, with px the separation measured now:
\* leave the loop, or shrink the rectangle and fly to it
LoopHead(s, px) ==
  IF ~LoopContinues(s.step, s.maxSteps) THEN [ s EXCEPT !.pc = "done" ]
  ELSE IF SeparationReached(px, s.targetMinPx)
       THEN [ s EXCEPT !.minPx = px, !.pc = "done", !.events = Append(@, "measure") ]
       ELSE [ s EXCEPT !.minPx = px, !.shrinks = @ + 1, !.flies = @ + 1, !.pc = "flyL",
                       !.rect = shrinkRectangle(@, s.perStepFactor),
                       !.events = @ \o << "measure", "shrink", "fly" >> ]

\* observation of the markers on screen after a shrink, px being their separation
\* now and s.minPx the one measured before the shrink: the latest separation, and
\* whether every shrink so far raised it by the stall threshold or more
Observe(s, px) ==
  [ s EXCEPT !.seenPx = px,
             !.improving = @ /\ (px = Infinity \/ px - s.minPx >= StallThresholdPx) ]

\* zoomToSeparate without the second waitOnePostRender of the loop body: the stall
\* test and the next measurement follow the forced refresh at once
AfterRenderOneWait(s, px) ==
  CASE s.pc = "render0" ->
         LoopHead([ s EXCEPT !.prevMinPx = px, !.seenPx = px,
                             !.events = @ \o << "render", "measure" >> ], px)
    [] s.pc = "renderA" ->
         LET t == [ Observe(s, px) EXCEPT !.refreshes = @ + 1,
                                          !.events = @ \o << "render", "refresh" >> ]
         IN IF Stalled(s.minPx, s.prevMinPx) THEN [ t EXCEPT !.pc = "done" ]
            ELSE LoopHead([ t EXCEPT !.prevMinPx = s.minPx, !.step = @ + 1 ], px)
    [] OTHER -> s

\* the continuation of an activation whose waitOnePostRender resolved; px is what
\* minPixelSeparation returns in this continuation
AfterRender(s, px) ==
  CASE s.pc = "render0" ->
         LoopHead([ s EXCEPT !.prevMinPx = px, !.seenPx = px,
                             !.events = @ \o << "render", "measure" >> ], px)
    [] s.pc = "renderA" ->
         [ s EXCEPT !.refreshes = @ + 1, !.pc = "renderB",
                    !.events = @ \o << "render", "refresh" >> ]
    [] s.pc = "renderB" ->
         LET t == [ Observe(s, px) EXCEPT !.events = Append(@, "render") ]
         IN IF Stalled(s.minPx, s.prevMinPx) THEN [ t EXCEPT !.pc = "done" ]
            ELSE LoopHead([ t EXCEPT !.prevMinPx = s.minPx, !.step = @ + 1 ], px)
    [] OTHER -> s

\* flyToRectangle without its cancel callback and its catch: the promise of a
\* cancelled or failed flight never resolves
AfterFlightCompletedOnly(s, outcome) ==
  IF outcome # "complete" THEN s
  ELSE CASE s.pc = "fly0" -> [ s EXCEPT !.pc = "render0", !.events = Append(@, "landed") ]
         [] s.pc = "flyL" -> [ s EXCEPT !.pc = "renderA", !.events = Append(@, "landed") ]
         [] s.pc = "flyOnce" -> [ s EXCEPT !.pc = "done", !.events = Append(@, "landed") ]
         [] OTHER -> s

\* the continuation of an activation whose flyToRectangle promise resolved, whether
\* by complete(), by cancel() or because camera.flyTo threw
AfterFlight(s, outcome) ==
  CASE s.pc = "fly0" -> [ s EXCEPT !.pc = "render0", !.events = Append(@, "landed") ]
    [] s.pc = "flyL" -> [ s EXCEPT !.pc = "renderA", !.events = Append(@, "landed") ]
    [] s.pc = "flyOnce" -> [ s EXCEPT !.pc = "done", !.events = Append(@, "landed") ]
    [] OTHER -> s

Measures(s) == s.pc \in { "render0", "renderB" }
AwaitsRender(s) == s.pc \in { "render0", "renderA", "renderB" }
AwaitsFlight(s) == s.pc \in { "fly0", "flyL", "flyOnce" }

\* ------------------------------------------------------------------- inputs

\* a marker of setData: whether lat / lng are finite, its world position, and the
\* segmentDesc and subState of its popupData
MarkerWith(place, popupData) ==
  [ latFinite |-> TRUE, lngFinite |-> TRUE, place |-> place, popupData |-> popupData,
    color |-> "#1976d2" ]

\* a payload as the data feed writes it for a category
PayloadOf(cat) ==
  IF cat = "L" THEN [ segmentDesc |-> Str(<< "L", "o", "a", "d" >>), subState |-> Undefined ]
  ELSE IF cat = "D" THEN [ segmentDesc |-> Str(<< "D", "u", "m", "p" >>), subState |-> Undefined ]
  ELSE [ segmentDesc |-> Null,
         subState |-> Str(IF cat = "W" THEN << "W", "o", "r", "k", "i", "n", "g" >>
                          ELSE IF cat = "PL" THEN << "P", "r", "o", "d", "u", "c", "t", "i", "v", "e", " ", "I", "d", "l", "i", "n", "g" >>
                          ELSE IF cat = "SI" THEN << "S", "h", "o", "r", "t", " ", "I", "d", "l", "i", "n", "g" >>
                          ELSE IF cat = "MI" THEN << "M", "e", "d", "i", "u", "m", " ", "I", "d", "l", "i", "n", "g" >>
                          ELSE IF cat = "LI" THEN << "L", "o", "n", "g", " ", "I", "d", "l", "i", "n", "g" >>
                          ELSE << "E", "n", "g", "i", "n", "e", " ", "S", "t", "o", "p" >>) ]

\* a marker whose payload classifies to cat
Marker(place, cat) == MarkerWith(place, PayloadOf(cat))
\* a marker whose popupData.subState is a non-zero number (popupData values are
\* string | number | null); classify falls back to 'SI' on it
NumberSubState(place) ==
  MarkerWith(place, [ segmentDesc |-> Undefined, subState |-> Num(1) ])
\* a marker of a category whose options.color is color
Colored(cat, color) == [ Marker(1, cat) EXCEPT !.color = color ]
\* a marker whose lat is NaN or infinite
BadMarker(place, cat) == [ Marker(place, cat) EXCEPT !.latFinite = FALSE ]

\* the empty Map / the empty cluster layout
NoClusters == << >>

\* Map.set / the layout with key k bound to v
Bind(f, k, v) == [ x \in (DOMAIN f) \cup {k} |-> IF x = k THEN v ELSE f[x] ]

\* entities that belong to a cluster of the host's layout (these are not drawn singly)
Clustered(layout) ==
  UNION { { layout[k][i] : i \in 1..Len(layout[k]) } : k \in DOMAIN layout }

\* the layouts the host may produce over the entities: clusters 1..n of at least
\* minSize members each, pairwise disjoint, in the order in which they are styled
Layouts(entities, minSize) ==
  { f \in UNION { [ K -> SUBSET entities ] : K \in SUBSET ClusterKeys } :
      /\ DOMAIN f = 1..Cardinality(DOMAIN f)
      /\ \A k \in DOMAIN f : Cardinality(f[k]) >= Max(minSize, 1)
      /\ \A k1, k2 \in DOMAIN f : k1 # k2 => f[k1] \cap f[k2] = {} }

\* --------------------------------------------------------------------- Init

\* the state when the constructor returns
InitWith(opts, data, height, ratio) ==
  /\ options = ConstructOptions(opts)
  /\ clustering = [ enabled |-> ConstructOptions(opts).enabled,
                    pixelRange |-> ConstructOptions(opts).pixelRange,
                    minimumClusterSize |-> ConstructOptions(opts).minimumClusterSize,
                    listeners |-> 1,
                    dirty |-> TRUE ]
  /\ hostClusters = NoClusters
  /\ clusterMembers = NoClusters
  /\ billboards = NoClusters
  /\ store = SetDataStore(EmptyStore, data)
  /\ clickHandler = "live"
  /\ popup = NoPopup
  /\ gateSub = [ listeners |-> 1, unsub |-> TRUE ]
  /\ clusteringRuntimeEnabled = TRUE
  /\ cameraHeight = height
  /\ win = [ keydown |-> 1, resize |-> 1, media |-> {ratio}, dpr |-> ratio,
             dpi |-> Max(1, ratio) ]
  /\ sessions = << >>
  /\ disposal = [ calls |-> 0, pending |-> 0, done |-> 0 ]
  /\ threw = FALSE
  /\ zoomTos = [ pending |-> IF ConstructOptions(opts).autoZoom THEN 2 ELSE 0,
                 rejected |-> FALSE ]
  /\ gateLog = NoGateLog
  /\ lastOp = [ name |-> "constructor", input |-> "", before |-> "Empty",
                calls |-> << >> ]

\* ------------------------------------------------------------ public API

\* events are dispatched only between the synchronous runs of the program: not while
\* zoomTo up to its await: viewer.zoomTo(dataSource) is called
StartZoomTo(z) == [ z EXCEPT !.pending = @ + 1 ]

\* zoomTo without the try / catch around its await
ZoomToRejectsOnFailure(outcome) == outcome \in { "reject", "throw" }

\* zoomTo after its await: try { await ... } catch { } swallows a rejection (and an
\* error viewer.zoomTo raises when called), so no outcome reaches the caller
ZoomToRejects(outcome) == FALSE

EndZoomTo(z, outcome) ==
  [ z EXCEPT !.pending = @ - 1, !.rejected = @ \/ ZoomToRejects(outcome) ]

\* a dispose() activation is suspended at its await (a microtask is pending)
Idle == disposal.pending = 0
\* the caller has not disposed the layer
InUse == disposal.calls = 0

setData(ms) ==
  /\ InUse
  /\ Len(store.place) + CountFinite(ms) <= MaxEntities
  /\ options.autoZoom => zoomTos.pending < MaxZoomTos
  /\ clusterMembers' = NoClusters
  /\ store' = SetDataStore(store, ms)
  /\ clustering' = forceClusterRefresh(clustering)
  /\ zoomTos' = IF options.autoZoom THEN StartZoomTo(zoomTos) ELSE zoomTos
  /\ lastOp' = Did("setData", ms)
  /\ UNCHANGED << billboards, options, hostClusters, clickHandler, popup, gateSub,
                  clusteringRuntimeEnabled, cameraHeight, win, sessions, disposal,
                  threw, gateLog >>

\* configureClustering: the host clustering fields after the call
ConfigureHost(c, opts) ==
  forceClusterRefresh(
    [ c EXCEPT !.enabled = opts.enabled,
               !.pixelRange = opts.pixelRange,
               !.minimumClusterSize = opts.minimumClusterSize,
               !.listeners = RemoveListener(@) + 1 ])

configureClustering(opts) ==
  /\ InUse
  /\ ("minCameraHeightForClustering" \in DOMAIN opts) => gateLog.crossings < MaxCrossings
  /\ options' = ConfigureOptions(options, opts)
  /\ clustering' = ConfigureHost(clustering, options')
  /\ clickHandler' = IF clickHandler = "undefined" THEN "live" ELSE clickHandler
  /\ lastOp' = Did("configureClustering", "")
  /\ UNCHANGED << billboards, zoomTos, hostClusters, clusterMembers, store, popup, gateSub,
                  clusteringRuntimeEnabled, cameraHeight, win, sessions, disposal,
                  threw, gateLog >>

\* the caller invokes zoomTo()
zoomTo ==
  /\ zoomTos.pending < MaxZoomTos
  /\ zoomTos' = StartZoomTo(zoomTos)
  /\ lastOp' = Did("zoomTo", "")
  /\ UNCHANGED << billboards, options, clustering, hostClusters, clusterMembers, store,
                  clickHandler, popup, gateSub, clusteringRuntimeEnabled, cameraHeight,
                  win, sessions, disposal, threw, gateLog >>

\* the host settles one viewer.zoomTo promise: it resolves true or false, rejects, or
\* viewer.zoomTo raised when it was called
ZoomToSettle(outcome) ==
  /\ zoomTos.pending > 0
  /\ zoomTos' = EndZoomTo(zoomTos, outcome)
  /\ lastOp' = Did("zoomToSettle", outcome)
  /\ UNCHANGED << billboards, options, clustering, hostClusters, clusterMembers, store,
                  clickHandler, popup, gateSub, clusteringRuntimeEnabled, cameraHeight,
                  win, sessions, disposal, threw, gateLog >>

refreshClusterBadges ==
  /\ InUse
  /\ clustering' = forceClusterRefresh(clustering)
  /\ lastOp' = Did("refreshClusterBadges", "")
  /\ UNCHANGED << billboards, zoomTos, options, hostClusters, clusterMembers, store, clickHandler, popup,
                  gateSub, clusteringRuntimeEnabled, cameraHeight, win, sessions,
                  disposal, threw, gateLog >>

\* dispose that destroys the click handler and keeps the field
DisposeClickHandlerKeepField(h) == IF h = "undefined" THEN h ELSE "destroyed"

\* dispose, up to its await: the styler is unsubscribed, the click handler destroyed,
\* the data source removed from the viewer
DisposeClickHandler(h) == IF h = "undefined" THEN h ELSE "undefined"

\* ScreenSpaceEventHandler.destroy() raises on a handler that was destroyed before
DestroyThrows(h) == h = "destroyed"

DisposeBegin ==
  /\ disposal.calls < MaxDisposeCalls
  /\ clustering' = [ clustering EXCEPT !.listeners = RemoveListener(@) ]
  /\ threw' = (threw \/ DestroyThrows(clickHandler))
  /\ IF DestroyThrows(clickHandler)
     THEN /\ disposal' = [ disposal EXCEPT !.calls = @ + 1 ]
          /\ UNCHANGED << billboards, zoomTos, clickHandler, store >>
     ELSE /\ clickHandler' = DisposeClickHandler(clickHandler)
          /\ store' = [ store EXCEPT !.attached = FALSE ]
          /\ disposal' = [ disposal EXCEPT !.calls = @ + 1, !.pending = @ + 1 ]
  /\ lastOp' = Did("disposeBegin", "")
  /\ UNCHANGED << billboards, zoomTos, options, hostClusters, clusterMembers, popup, gateSub,
                  clusteringRuntimeEnabled, cameraHeight, win, sessions, gateLog >>

\* dispose: window.matchMedia(...)?.removeEventListener('change', onDpiChange).
\* matchMedia returns a new MediaQueryList on every call, and listeners belong to the
\* object: the removal acts on a list that holds no listener, and the list the
\* constructor registered onDpiChange on keeps it
RemoveFromNewMediaQueryList(media, ratio) == media

\* dispose: window.removeEventListener('resize', onDpiChange) and the media-query removal
DisposeWindow(w) ==
  [ w EXCEPT !.resize = RemoveListener(@),
             !.media = RemoveFromNewMediaQueryList(@, w.dpr) ]

\* dispose: if (this.postRenderUnsub) this.postRenderUnsub()
DisposeGate(g) ==
  IF g.unsub THEN [ g EXCEPT !.listeners = RemoveListener(@) ] ELSE g

\* dispose, after its await
DisposeFinish ==
  /\ disposal.pending > 0
  /\ clusterMembers' = NoClusters
  /\ store' = [ store EXCEPT !.markerIds = {} ]
  /\ popup' = hidePopup(popup)
  /\ win' = DisposeWindow(win)
  /\ gateSub' = DisposeGate(gateSub)
  /\ disposal' = [ disposal EXCEPT !.pending = @ - 1, !.done = @ + 1 ]
  /\ lastOp' = Did("disposeFinish", "")
  /\ UNCHANGED << billboards, zoomTos, options, clustering, hostClusters, clickHandler,
                  clusteringRuntimeEnabled, cameraHeight, sessions, threw, gateLog >>

\* ------------------------------------------------------------ host engine

\* the id the host gives a cluster's label (and a pick of the cluster returns): the
\* array of the clustered entities
ArrayId(entities) == [ entity |-> None, items |-> entities ]
\* the id of a picked marker primitive: its entity
EntityId(entity) == [ entity |-> entity, items |-> << >> ]

\* clusterKeyFrom: '' for a falsy id, String(id.id) for an entity, String(id) otherwise.
\* String of an array of n entities is "[object Object]" n times, joined by commas:
\* the key records the entity's id (guid) or that number of objects
clusterKeyFrom(anyId) ==
  IF anyId.entity # None
  THEN [ guid |-> anyId.entity, objects |-> 0 ]
  ELSE [ guid |-> None, objects |-> Len(anyId.items) ]

\* ------------------------------------------------------------ cluster badge

\* Math.round and Math.ceil of a number held in tenths, in whole units
Round(x) == (x + 5) \div 10
Ceil(x) == -((-x) \div 10)

RECURSIVE ColorsOf(_, _, _)
\* buildBuckets: the keys of colorCounts[cat] in the order of their insertion
ColorsOf(st, entities, cat) ==
  IF entities = << >> THEN << >>
  ELSE LET n == Len(entities)
           e == entities[n]
           before == ColorsOf(st, SubSeq(entities, 1, n - 1), cat)
       IN IF st.cat[e] = cat /\ \A k \in 1..Len(before) : before[k] # st.dotColor[e]
          THEN Append(before, st.dotColor[e])
          ELSE before

\* buildBuckets: colorCounts[cat].get(col)
ColorCount(st, entities, cat, col) ==
  Cardinality({ i \in 1..Len(entities) :
                  st.cat[entities[i]] = cat /\ st.dotColor[entities[i]] = col })

\* buildBuckets: if (n >= bestN), the last of the most frequent colors
BetterLastWins(n, bestN) == n >= bestN

\* buildBuckets: if (n > bestN)
Better(n, bestN) == n > bestN

RECURSIVE BestFrom(_, _, _, _, _, _)
\* buildBuckets: the loop over the colors of one category, from the k-th on
BestFrom(st, entities, cat, cols, k, best) ==
  IF k > Len(cols) THEN best
  ELSE LET n == ColorCount(st, entities, cat, cols[k])
       IN BestFrom(st, entities, cat, cols, k + 1,
                   IF Better(n, best.n) THEN [ col |-> cols[k], n |-> n ] ELSE best)

\* buildBuckets: the count of each category among the entities (every entity that
\* setData created carries __cat), and the representative color of each category
\* that has members
buildBuckets(st, entities) ==
  [ counts |-> [ cat \in AllCats |->
                   Cardinality({ i \in 1..Len(entities) : st.cat[entities[i]] = cat }) ],
    dotCss |-> [ cat \in { c \in AllCats : ColorsOf(st, entities, c) # << >> } |->
                   BestFrom(st, entities, cat, ColorsOf(st, entities, cat), 1,
                            [ col |-> "#000000", n |-> -1 ]).col ] ]

\* buildRowsForBuckets: the deterministic vertical order
RowOrder == << "L", "D", "W", "PL", "SI", "MI", "LI", "ES" >>

\* buildRowsForBuckets without the skip of empty categories
buildRowsForBucketsAll(b) ==
  [ i \in 1..Len(RowOrder) |->
      [ label |-> RowOrder[i], count |-> b.counts[RowOrder[i]],
        dotCss |-> IF RowOrder[i] \in DOMAIN b.dotCss THEN b.dotCss[RowOrder[i]]
                   ELSE "#000000" ] ]

buildRowsForBuckets(b) ==
  LET kept == SelectSeq(RowOrder, LAMBDA cat : b.counts[cat] > 0)
  IN [ i \in 1..Len(kept) |->
         [ label |-> kept[i], count |-> b.counts[kept[i]],
           dotCss |-> IF kept[i] \in DOMAIN b.dotCss THEN b.dotCss[kept[i]]
                      ELSE "#000000" ] ]

\* drawClusterVerticalBadge: rowH and rowGap, in whole pixels
RowHeight(style) == Max(1, Round(style.fontPx))
RowGap(style) == Max(0, Round(style.rowGapPx))

\* drawClusterVerticalBadge with rows stacked without the gap between them
drawClusterVerticalBadgeNoGap(rows, style) ==
  LET contentHeight == IF Len(rows) > 0 THEN Len(rows) * RowHeight(style)
                       ELSE RowHeight(style)
  IN [ rows |-> rows, cssHeight |-> Ceil(contentHeight * 10 + style.paddingY * 2) ]

\* drawClusterVerticalBadge: the rows drawn and the CSS height of the canvas
drawClusterVerticalBadge(rows, style) ==
  LET contentHeight == IF Len(rows) > 0
                       THEN Len(rows) * RowHeight(style) + (Len(rows) - 1) * RowGap(style)
                       ELSE RowHeight(style)
  IN [ rows |-> rows, cssHeight |-> Ceil(contentHeight * 10 + style.paddingY * 2) ]

\* a cluster billboard the styler has not touched
NoBillboard == [ show |-> FALSE, rows |-> << >>, height |-> 0 ]

\* clusterStyler: the billboard it gives the cluster
clusterBillboard(clusteredEntities) ==
  LET out == drawClusterVerticalBadge(buildRowsForBuckets(buildBuckets(store, clusteredEntities)),
                                      options.badgeStyle)
  IN [ show |-> TRUE, rows |-> out.rows, height |-> out.cssHeight ]

\* clusterStyler for one cluster: this.clusterMembers.set(key, clusteredEntities)
clusterStyler(members, clusteredEntities) ==
  Bind(members, clusterKeyFrom(ArrayId(clusteredEntities)), clusteredEntities)

RECURSIVE StyleEach(_, _, _)
\* clusterEvent raised for the clusters cs of the layout, one after the other
StyleEach(members, layout, cs) ==
  IF cs = {} THEN members
  ELSE LET c == CHOOSE x \in cs : \A y \in cs : x <= y
       IN StyleEach(clusterStyler(members, layout[c]), layout, cs \ {c})

\* the host re-clusters the data source and raises clusterEvent once per cluster
StyleClusters(members, layout, listeners) ==
  IF listeners = 0 THEN members
  ELSE StyleEach(members, layout, DOMAIN layout)

ClusterPassWith(f) ==
  /\ Idle
  /\ store.attached
  /\ LET layout == IF clustering.enabled
                   THEN [ k \in DOMAIN f |-> SetToSeq(f[k]) ]
                   ELSE NoClusters
     IN /\ hostClusters' = layout
        /\ clusterMembers' = StyleClusters(clusterMembers, layout, clustering.listeners)
        /\ billboards' = [ k \in DOMAIN layout |->
                             IF clustering.listeners = 0 THEN NoBillboard
                             ELSE clusterBillboard(layout[k]) ]
  /\ clustering' = [ clustering EXCEPT !.dirty = FALSE ]
  /\ lastOp' = Did("clusterPass", "")
  /\ UNCHANGED << zoomTos, options, store, clickHandler, popup, gateSub,
                  clusteringRuntimeEnabled, cameraHeight, win, sessions, disposal,
                  threw, gateLog >>

\* a pass over one of the layouts the host can form
ClusterPass ==
  \E f \in Layouts(store.entities, clustering.minimumClusterSize) : ClusterPassWith(f)

\* the user or a camera flight moves the camera to another altitude
CameraMove(h) ==
  /\ Idle
  /\ h # cameraHeight
  /\ gateLog.crossings < MaxCrossings
  /\ cameraHeight' = h
  /\ lastOp' = Did("cameraMove", "")
  /\ UNCHANGED << billboards, zoomTos, options, clustering, hostClusters, clusterMembers, store,
                  clickHandler, popup, gateSub, clusteringRuntimeEnabled, win,
                  sessions, disposal, threw, gateLog >>

\* ----------------------------------------------------------------- clicks

Clickable == Idle /\ clickHandler = "live"

\* LEFT_CLICK with nothing picked ("nothing"), a picked primitive without a position
\* ("noPosition"), or a picked object that is neither a cluster nor a marker ("foreign")
BackgroundClick(kind) ==
  /\ Clickable
  /\ popup' = hidePopup(popup)
  /\ lastOp' = Did("backgroundClick", kind)
  /\ UNCHANGED << billboards, zoomTos, options, clustering, hostClusters, clusterMembers, store,
                  clickHandler, gateSub, clusteringRuntimeEnabled, cameraHeight, win,
                  sessions, disposal, threw, gateLog >>

RightClick ==
  /\ Clickable
  /\ popup' = hidePopup(popup)
  /\ lastOp' = Did("rightClick", "")
  /\ UNCHANGED << billboards, zoomTos, options, clustering, hostClusters, clusterMembers, store,
                  clickHandler, gateSub, clusteringRuntimeEnabled, cameraHeight, win,
                  sessions, disposal, threw, gateLog >>

\* the markers of the drill pick that lie within the distance epsilon of the clicked one
SamePlace(st, picks, entity) ==
  SelectSeq(SetToSeq(picks \cap st.markerIds),
            LAMBDA e : st.place[e] = st.place[entity])

\* LEFT_CLICK, "Single marker clicked": the popup after the click
MarkerClickPopup(p, st, picks, entity, opts) ==
  LET samePlace == SamePlace(st, picks, entity)
  IN IF Len(samePlace) > 1 THEN showCarouselPopup(p, samePlace, entity)
     ELSE IF opts.popupEnabled /\ ~buildDefaultPopupHtmlRaises(entity)
          THEN showPopupAt(p, entity)
     ELSE p

\* LEFT_CLICK, "Single marker clicked": the handler raises while it builds the HTML
MarkerClickRaises(p, st, picks, entity, opts) ==
  LET samePlace == SamePlace(st, picks, entity)
  IN IF Len(samePlace) > 1 THEN SlideRaises(showCarouselPopup(p, samePlace, entity))
     ELSE opts.popupEnabled /\ buildDefaultPopupHtmlRaises(entity)

\* LEFT_CLICK on a drawn marker; picks are the entities drillPick finds under the point
MarkerClick(entity, picks) ==
  /\ Clickable
  /\ store.attached
  /\ entity \in picks
  /\ picks \subseteq (store.entities \ Clustered(hostClusters))
  /\ popup' = IF entity \in store.markerIds
              THEN MarkerClickPopup(popup, store, picks, entity, options)
              ELSE hidePopup(popup)
  /\ threw' = ( \/ threw
                \/ /\ entity \in store.markerIds
                   /\ MarkerClickRaises(popup, store, picks, entity, options) )
  /\ lastOp' = IF entity \in store.markerIds
               THEN DidCalling("markerClick", entity,
                               << Call("onMarkerClick", << entity >>) >>)
               ELSE Did("markerClick", entity)
  /\ UNCHANGED << billboards, zoomTos, options, clustering, hostClusters, clusterMembers, store,
                  clickHandler, gateSub, clusteringRuntimeEnabled, cameraHeight, win,
                  sessions, disposal, gateLog >>

\* a slot for a new activation: a finished one is discarded, else the list grows.
\* The handler keeps no record of a zoom in progress (no flag, no queue), so the
\* only limit on the activations that overlap is the cap the model explores
HasSlotWithin(ss, cap) == Len(ss) < cap \/ \E i \in 1..Len(ss) : ss[i].pc = "done"

StartSession(ss, s) ==
  IF \E i \in 1..Len(ss) : ss[i].pc = "done"
  THEN LET i == CHOOSE j \in 1..Len(ss) : ss[j].pc = "done"
       IN [ ss EXCEPT ![i] = s ]
  ELSE Append(ss, s)

\* LEFT_CLICK, "Cluster clicked": the zoom the handler starts
ClusterClickSession(st, members, opts) ==
  IF opts.ensureDeclusterOnClick
  THEN NewSeparate(st, members, opts)
  ELSE NewOnce(st, members, opts)

\* LEFT_CLICK on the billboard of cluster c of the host's layout, with at most cap
\* activations overlapping
ClusterClickWithin(c, cap) ==
  /\ Clickable
  /\ store.attached
  /\ c \in DOMAIN hostClusters
  /\ LET key == clusterKeyFrom(ArrayId(hostClusters[c]))
     IN IF key \in DOMAIN clusterMembers
        THEN /\ HasSlotWithin(sessions, cap)
             /\ sessions' = StartSession(sessions,
                              ClusterClickSession(store, clusterMembers[key], options))
             /\ popup' = popup
             /\ lastOp' = DidCalling("clusterClick", c,
                                     << Call("onClusterClick", clusterMembers[key]) >>)
        ELSE /\ popup' = hidePopup(popup)
             /\ sessions' = sessions
             /\ lastOp' = Did("clusterClick", c)
  /\ UNCHANGED << billboards, zoomTos, options, clustering, hostClusters, clusterMembers, store,
                  clickHandler, gateSub, clusteringRuntimeEnabled, cameraHeight, win,
                  disposal, threw, gateLog >>

ClusterClick(c) == ClusterClickWithin(c, MaxSessions)

\* ------------------------------------------------------------------- keys

\* the keydown listener without its Escape branch
OnKeyDownNoEscape(p, key) ==
  IF ~p.el \/ p.display # "block" THEN p
  ELSE IF ~p.carousel.set THEN p
       ELSE IF key = "ArrowLeft" THEN carouselPrev(p)
       ELSE IF key = "ArrowRight" THEN carouselNext(p)
       ELSE p

\* the keydown listener of the constructor, for one key
OnKeyDown(p, key) ==
  IF ~p.el \/ p.display # "block" THEN p
  ELSE LET q == IF key = "Escape" THEN hidePopup(p) ELSE p
       IN IF ~q.carousel.set THEN q
          ELSE IF key = "ArrowLeft" THEN carouselPrev(q)
          ELSE IF key = "ArrowRight" THEN carouselNext(q)
          ELSE q

RECURSIVE Times(_, _, _)
\* every registered listener runs: Op applied n times
Times(p, key, n) == IF n = 0 THEN p ELSE Times(OnKeyDown(p, key), key, n - 1)

KeyDown(key) ==
  /\ Idle
  /\ popup' = Times(popup, key, win.keydown)
  /\ threw' = ( \/ threw
                \/ /\ win.keydown > 0 /\ key \in { "ArrowLeft", "ArrowRight" }
                   /\ popup.display = "block" /\ SlideRaises(popup') )
  /\ lastOp' = Did("keyDown", key)
  /\ UNCHANGED << billboards, zoomTos, options, clustering, hostClusters, clusterMembers, store,
                  clickHandler, gateSub, clusteringRuntimeEnabled, cameraHeight, win,
                  sessions, disposal, gateLog >>

\* a click on the carousel's previous / next button
CarouselButton(dir) ==
  /\ Idle
  /\ popup.el /\ popup.display = "block" /\ popup.carousel.set
  /\ popup' = IF dir = "prev" THEN carouselPrev(popup) ELSE carouselNext(popup)
  /\ threw' = (threw \/ SlideRaises(popup'))
  /\ lastOp' = Did("carouselButton", dir)
  /\ UNCHANGED << billboards, zoomTos, options, clustering, hostClusters, clusterMembers, store,
                  clickHandler, gateSub, clusteringRuntimeEnabled, cameraHeight, win,
                  sessions, disposal, gateLog >>

\* ----------------------------------------------------------------- window

\* onDpiChange
OnDpiChangeDpi(w) == Max(1, w.dpr)

OnDpiChange(c, w) == IF OnDpiChangeDpi(w) # w.dpi THEN forceClusterRefresh(c) ELSE c

\* window resize event
Resize ==
  /\ Idle
  /\ win.resize > 0
  /\ clustering' = OnDpiChange(clustering, win)
  /\ win' = [ win EXCEPT !.dpi = OnDpiChangeDpi(win) ]
  /\ lastOp' = Did("resize", "")
  /\ UNCHANGED << billboards, zoomTos, options, hostClusters, clusterMembers, store, clickHandler, popup,
                  gateSub, clusteringRuntimeEnabled, cameraHeight, sessions, disposal,
                  threw, gateLog >>

\* devicePixelRatio changes (the window moves to another screen): a media query
\* registered for the old or the new ratio reports the change to onDpiChange
DprChange(ratio) ==
  /\ Idle
  /\ ratio # win.dpr
  /\ LET w == [ win EXCEPT !.dpr = ratio ]
         heard == win.dpr \in win.media \/ ratio \in win.media
     IN /\ clustering' = IF heard THEN OnDpiChange(clustering, w) ELSE clustering
        /\ win' = IF heard THEN [ w EXCEPT !.dpi = OnDpiChangeDpi(w) ] ELSE w
  /\ lastOp' = Did("dprChange", "")
  /\ UNCHANGED << billboards, zoomTos, options, hostClusters, clusterMembers, store, clickHandler, popup,
                  gateSub, clusteringRuntimeEnabled, cameraHeight, sessions, disposal,
                  threw, gateLog >>

\* ------------------------------------------------- flights and render events

\* camera.flyTo of activation i ends: complete() or cancel() is called, or flyTo threw
FlyResolve(i, outcome) ==
  /\ Idle
  /\ i \in 1..Len(sessions)
  /\ AwaitsFlight(sessions[i])
  /\ sessions' = [ sessions EXCEPT ![i] = AfterFlight(@, outcome) ]
  /\ popup' = IF sessions'[i].pc = "done" THEN hidePopup(popup) ELSE popup
  /\ lastOp' = Did("flyResolve", outcome)
  /\ UNCHANGED << billboards, zoomTos, options, clustering, hostClusters, clusterMembers, store,
                  clickHandler, gateSub, clusteringRuntimeEnabled, cameraHeight, win,
                  disposal, threw, gateLog >>

RECURSIVE RunTicks(_, _)
\* the popup tick listeners run in the order of their registration
RunTicks(p, ticks) ==
  IF ticks = << >> THEN p
  ELSE RunTicks(positionPopupAt(p, Head(ticks)), Tail(ticks))

\* scene.postRender is raised: the camera-height listener and the popup ticks run, the
\* waitOnePostRender promises resolve, then the suspended zooms continue; a zoom that
\* ends returns to the click handler, which hides the popup
PostRender ==
  /\ Idle
  /\ \E pxs \in [ 1..Len(sessions) -> PxSamples ] :
       /\ \A i \in 1..Len(sessions) : ~Measures(sessions[i]) => pxs[i] = 0
       /\ LET gateOn == gateSub.listeners > 0
              step == updateClusteringByCameraHeight(clustering, cameraHeight,
                                                     clusteringRuntimeEnabled, options)
              c1 == IF gateOn THEN step.clustering ELSE clustering
              next == [ i \in 1..Len(sessions) |->
                          IF AwaitsRender(sessions[i])
                          THEN AfterRender(sessions[i], pxs[i])
                          ELSE sessions[i] ]
              refreshed == \E i \in 1..Len(sessions) : sessions[i].pc = "renderA"
              finished == \E i \in 1..Len(sessions) :
                             sessions[i].pc # "done" /\ next[i].pc = "done"
              p1 == RunTicks(popup, popup.ticks)
          IN /\ clustering' = IF refreshed THEN forceClusterRefresh(c1) ELSE c1
             /\ clusteringRuntimeEnabled' =
                  IF gateOn THEN step.applied ELSE clusteringRuntimeEnabled
             /\ gateLog' = IF gateOn
                           THEN ObserveGate(gateLog,
                                            ShouldCluster(cameraHeight, options),
                                            clusteringRuntimeEnabled, step)
                           ELSE gateLog
             /\ sessions' = next
             /\ popup' = IF finished THEN hidePopup(p1) ELSE p1
  /\ lastOp' = Did("postRender", "")
  /\ UNCHANGED << billboards, zoomTos, options, hostClusters, clusterMembers, store, clickHandler, gateSub,
                  cameraHeight, win, disposal, threw >>

\* ------------------------------------------------------- specifications

Cats == { "L", "SI" }

\* marker lists the callers pass: none; two co-located markers of two categories; two
\* co-located markers and one elsewhere, with an entry whose lat is not finite
DataInputs ==
  { << >>,
    << Marker(1, "L"), Marker(1, "SI") >>,
    << Marker(1, "L"), BadMarker(1, "L"), Marker(2, "L") >> }

\* partial options the callers pass
OptionInputs ==
  { NoOpts, [ pixelRange |-> 1 ], [ pixelRange |-> 0 ], [ minSeparationPx |-> 3 ] }
    \cup { [ maxZoomIters |-> k ] : k \in 0..MaxIters }
    \cup { [ enabled |-> b ] : b \in BOOLEAN }
    \cup { [ popupEnabled |-> b ] : b \in BOOLEAN }
    \cup { [ ensureDeclusterOnClick |-> b ] : b \in BOOLEAN }
    \cup { [ minCameraHeightForClustering |-> DefaultMinCameraHeight + 1 ] }

Keys == { "Escape", "ArrowLeft", "ArrowRight", "Enter" }
FlightOutcomes == { "complete", "cancel", "throw" }
ZoomToOutcomes == { "true", "false", "reject", "throw" }
BackgroundKinds == { "nothing", "noPosition", "foreign" }

Init ==
  \E opts \in OptionInputs, data \in DataInputs, height \in Heights, ratio \in DprValues :
    InitWith(opts, data, height, ratio)

Next ==
  \/ \E ms \in DataInputs : setData(ms)
  \/ \E opts \in OptionInputs : configureClustering(opts)
  \/ refreshClusterBadges
  \/ zoomTo
  \/ \E outcome \in ZoomToOutcomes : ZoomToSettle(outcome)
  \/ DisposeBegin
  \/ DisposeFinish
  \/ ClusterPass
  \/ \E h \in Heights : CameraMove(h)
  \/ \E kind \in BackgroundKinds : BackgroundClick(kind)
  \/ RightClick
  \/ \E e \in EntityIds, picks \in SUBSET EntityIds : MarkerClick(e, picks)
  \/ \E k \in ClusterKeys : ClusterClick(k)
  \/ \E key \in Keys : KeyDown(key)
  \/ \E dir \in { "prev", "next" } : CarouselButton(dir)
  \/ Resize
  \/ \E ratio \in DprValues : DprChange(ratio)
  \/ \E i \in 1..MaxSessions, outcome \in FlightOutcomes : FlyResolve(i, outcome)
  \/ PostRender

Spec == Init /\ [][Next]_vars

\* ---- the decluster zoom: cluster clicks, flights, render notifications

\* a target separation the projection can reach, with every maxZoomIters in range
\* and the default one
ZoomOptions ==
  { [ minSeparationPx |-> MaxPx - 1 ] }
    \cup { [ minSeparationPx |-> MaxPx - 1, maxZoomIters |-> k ] : k \in 0..MaxIters }
ZoomData ==
  { << Marker(1, "L"), Marker(1, "SI") >>,
    << Marker(1, "L"), Marker(2, "L") >> }

InitZoom ==
  \E opts \in ZoomOptions, data \in ZoomData :
    InitWith(opts, data, DefaultMinCameraHeight, 1)

NextZoom ==
  \/ ClusterPass
  \/ \E k \in ClusterKeys : ClusterClick(k)
  \/ \E i \in 1..MaxSessions, outcome \in FlightOutcomes : FlyResolve(i, outcome)
  \/ PostRender

SpecZoom == InitZoom /\ [][NextZoom]_vars

\* every flight of every activation ends (complete, cancel or a raising flyTo), and
\* the scene keeps rendering (waitOnePostRender calls scene.requestRender())
FairZoom ==
  /\ \A i \in 1..MaxSessions :
       WF_vars(\E outcome \in FlightOutcomes : FlyResolve(i, outcome))
  /\ WF_vars(PostRender)

SpecZoomFair == InitZoom /\ [][NextZoom]_vars /\ FairZoom

\* ---- the popup / carousel controller: clicks, keys, render notifications

PopupOptions == { [ popupEnabled |-> b ] : b \in BOOLEAN }
PopupReconfigure == { [ popupEnabled |-> b ] : b \in BOOLEAN }
\* three co-located markers; two co-located markers and one elsewhere; the same with
\* a numeric subState in the first marker's popupData
PopupData ==
  { << Marker(1, "L"), Marker(1, "L"), Marker(1, "SI") >>,
    << Marker(1, "L"), Marker(1, "SI"), Marker(2, "L") >>,
    << NumberSubState(1), Marker(1, "SI"), Marker(2, "L") >> }

InitPopup ==
  \E opts \in PopupOptions, data \in PopupData :
    InitWith(opts, data, DefaultMinCameraHeight, 1)

NextPopup ==
  \/ \E ms \in { << >> } : setData(ms)
  \/ \E outcome \in { "true" } : ZoomToSettle(outcome)
  \/ \E opts \in PopupReconfigure : configureClustering(opts)
  \/ \E kind \in BackgroundKinds : BackgroundClick(kind)
  \/ RightClick
  \/ \E e \in EntityIds, picks \in SUBSET EntityIds : MarkerClick(e, picks)
  \/ \E key \in Keys : KeyDown(key)
  \/ \E dir \in { "prev", "next" } : CarouselButton(dir)
  \/ PostRender

SpecPopup == InitPopup /\ [][NextPopup]_vars

\* ---- the camera-height gate: altitude samples, configuration, data

GateOptions == { NoOpts, [ enabled |-> FALSE ] }
GateReconfigure ==
  { NoOpts, [ minCameraHeightForClustering |-> DefaultMinCameraHeight + 1 ] }
    \cup { [ enabled |-> b ] : b \in BOOLEAN }
GateData == { << Marker(1, "L"), Marker(1, "SI") >> }

InitGate ==
  \E opts \in GateOptions, data \in GateData, height \in Heights :
    InitWith(opts, data, height, 1)

NextGate ==
  \/ \E ms \in { << >> } : setData(ms)
  \/ \E outcome \in { "true" } : ZoomToSettle(outcome)
  \/ \E opts \in GateReconfigure : configureClustering(opts)
  \/ refreshClusterBadges
  \/ ClusterPass
  \/ \E h \in Heights : CameraMove(h)
  \/ PostRender

SpecGate == InitGate /\ [][NextGate]_vars

\* ---- the lifecycle: listeners, dispose

LifeData == { << Marker(1, "L"), Marker(2, "SI") >> }

InitLife ==
  \E data \in LifeData, ratio \in DprValues :
    InitWith(NoOpts, data, DefaultMinCameraHeight, ratio)

NextLife ==
  \/ \E opts \in { NoOpts } : configureClustering(opts)
  \/ DisposeBegin
  \/ DisposeFinish
  \/ ClusterPass
  \/ \E e \in EntityIds, picks \in SUBSET EntityIds : MarkerClick(e, picks)
  \/ \E key \in { "Escape", "ArrowRight" } : KeyDown(key)
  \/ Resize
  \/ \E ratio \in DprValues : DprChange(ratio)
  \/ PostRender

SpecLife == InitLife /\ [][NextLife]_vars

\* ---- the marker store and zoomTo: setData, zoomTo, cluster passes

\* marker lists with and without entries whose lat is not finite
StoreInputs ==
  { << >>,
    << Marker(1, "L") >>,
    << BadMarker(1, "L") >>,
    << BadMarker(2, "SI"), Marker(2, "SI") >>,
    << Marker(1, "L"), Marker(1, "SI") >> }
StoreOptions == { NoOpts, [ autoZoom |-> FALSE ] }

InitData ==
  \E opts \in StoreOptions, data \in StoreInputs :
    InitWith(opts, data, DefaultMinCameraHeight, 1)

NextData ==
  \/ \E ms \in StoreInputs : setData(ms)
  \/ zoomTo
  \/ \E outcome \in ZoomToOutcomes : ZoomToSettle(outcome)
  \/ ClusterPass

SpecData == InitData /\ [][NextData]_vars

\* ---- the options: construction and configureClustering without minSeparationPx

PixelRanges == 0..MaxPixelRange
RangeOptions ==
  { NoOpts } \cup { [ pixelRange |-> r ] : r \in PixelRanges }
    \cup { [ pixelRange |-> r, minimumClusterSize |-> 3 ] : r \in PixelRanges }
    \cup { [ enabled |-> b ] : b \in BOOLEAN }
RangeData == { << Marker(1, "L"), Marker(1, "SI") >> }

InitOptions ==
  \E opts \in RangeOptions, data \in RangeData :
    InitWith(opts, data, DefaultMinCameraHeight, 1)

NextOptions ==
  \/ \E opts \in RangeOptions : configureClustering(opts)
  \/ refreshClusterBadges
  \/ ClusterPass

SpecOptions == InitOptions /\ [][NextOptions]_vars

\* ---- cluster passes and click routing: two pairs of co-located markers

ClusterOptions == { [ ensureDeclusterOnClick |-> FALSE, popupEnabled |-> FALSE ] }
ClusterData ==
  { << Marker(1, "L"), Marker(1, "SI"), Marker(2, "L"), Marker(2, "SI") >> }

InitCluster ==
  \E opts \in ClusterOptions, data \in ClusterData :
    InitWith(opts, data, DefaultMinCameraHeight, 1)

NextCluster ==
  \/ refreshClusterBadges
  \/ ClusterPass
  \/ \E c \in ClusterKeys : ClusterClick(c)
  \/ \E e \in EntityIds : MarkerClick(e, {e})
  \/ \E i \in 1..MaxSessions : FlyResolve(i, "complete")

SpecCluster == InitCluster /\ [][NextCluster]_vars

\* ---- the badge of a cluster

\* one marker of every category, in one place, in the row order and against it;
\* markers sharing categories; markers of several colors
BadgeData ==
  { [ i \in 1..Len(RowOrder) |-> Marker(1, RowOrder[i]) ],
    [ i \in 1..Len(RowOrder) |-> Marker(1, RowOrder[Len(RowOrder) + 1 - i]) ],
    << Marker(1, "L"), Marker(1, "L"), Marker(1, "SI"), Marker(1, "SI"), Marker(1, "SI"),
       Marker(1, "D") >>,
    << Colored("L", "red"), Colored("L", "blue"), Colored("SI", ""), Colored("L", "blue"),
       Colored("L", "red"), Colored("SI", "green"), Colored("SI", "green") >> }

\* badge styles: the default; fractional numbers; a font below one pixel
BadgeStyles ==
  { DefaultBadgeStyle,
    [ fontPx |-> 125, paddingY |-> 73, rowGapPx |-> 4 ],
    [ fontPx |-> 4, paddingY |-> 0, rowGapPx |-> 36 ] }

BadgeOptions == { [ badgeStyle |-> style, autoZoom |-> FALSE ] : style \in BadgeStyles }

InitBadge ==
  \E opts \in BadgeOptions, data \in BadgeData :
    InitWith(opts, data, DefaultMinCameraHeight, 1)

\* the styler runs for one cluster holding the first n entities of the store, n = 0
\* included (drawClusterVerticalBadge provides for a badge without rows)
NextBadge ==
  \/ refreshClusterBadges
  \/ \E n \in 0..Cardinality(store.entities) :
       ClusterPassWith([ k \in {1} |-> { e \in store.entities : e <= n } ])

SpecBadge == InitBadge /\ [][NextBadge]_vars

\* ---- classification

\* payloads, each with segmentDesc and subState as they read after trimming and
\* lower-casing (seg, sub)
ClassifySamples ==
  { [ popupData |-> PayloadOf("L"), seg |-> "load", sub |-> "" ],
    [ popupData |-> PayloadOf("D"), seg |-> "dump", sub |-> "" ],
    [ popupData |-> PayloadOf("W"), seg |-> "", sub |-> "working" ],
    [ popupData |-> PayloadOf("PL"), seg |-> "", sub |-> "productive idling" ],
    [ popupData |-> PayloadOf("SI"), seg |-> "", sub |-> "short idling" ],
    [ popupData |-> PayloadOf("MI"), seg |-> "", sub |-> "medium idling" ],
    [ popupData |-> PayloadOf("LI"), seg |-> "", sub |-> "long idling" ],
    [ popupData |-> PayloadOf("ES"), seg |-> "", sub |-> "engine stop" ],
    [ popupData |-> [ segmentDesc |-> Str(<< " ", " ", "L", "O", "A", "D", " " >>),
                      subState |-> Str(<< "W", "o", "r", "k", "i", "n", "g" >>) ],
      seg |-> "load", sub |-> "working" ],
    [ popupData |-> [ segmentDesc |-> Str(<< "d", "u", "m", "p", "\n" >>),
                      subState |-> Num(1) ],
      seg |-> "dump", sub |-> "1" ],
    [ popupData |-> [ segmentDesc |-> Str(<< "H", "a", "u", "l" >>),
                      subState |-> Str(<< " ", "E", "N", "G", "I", "N", "E", " ", "S", "T", "O", "P" >>) ],
      seg |-> "haul", sub |-> "engine stop" ],
    [ popupData |-> [ segmentDesc |-> Null,
                      subState |-> Null ],
      seg |-> "", sub |-> "" ],
    [ popupData |-> [ segmentDesc |-> Undefined,
                      subState |-> Undefined ],
      seg |-> "", sub |-> "" ],
    [ popupData |-> [ segmentDesc |-> Str(<< >>),
                      subState |-> Str(<< "I", "d", "l", "e" >>) ],
      seg |-> "", sub |-> "idle" ],
    [ popupData |-> [ segmentDesc |-> Num(0),
                      subState |-> Str(<< "l", "o", "n", "g", " ", "i", "d", "l", "i", "n", "g", " " >>) ],
      seg |-> "0", sub |-> "long idling" ],
    [ popupData |-> [ segmentDesc |-> Str(<< "l", "o", " ", "a", "d" >>),
                      subState |-> Str(<< "M", "e", "d", "i", "u", "m", " ", " ", "I", "d", "l", "i", "n", "g" >>) ],
      seg |-> "lo ad", sub |-> "medium  idling" ],
    [ popupData |-> [ segmentDesc |-> Str(<< "L", "o", "a", "d", "e", "d" >>),
                      subState |-> Str(<< "p", "r", "o", "d", "u", "c", "t", "i", "v", "e", " ", "i", "d", "l", "i", "n", "g" >>) ],
      seg |-> "loaded", sub |-> "productive idling" ],
    [ popupData |-> [ segmentDesc |-> Str(<< " ", " " >>),
                      subState |-> Str(<< "\t", "S", "h", "o", "r", "t", " ", "I", "d", "l", "i", "n", "g" >>) ],
      seg |-> "", sub |-> "short idling" ],
    [ popupData |-> [ segmentDesc |-> Str(<< "D", "U", "M", "P" >>),
                      subState |-> Str(<< "W", "o", "r", "k", "i", "n", "g" >>) ],
      seg |-> "dump", sub |-> "working" ],
    [ popupData |-> [ segmentDesc |-> Str(<< "U", "n", "l", "o", "a", "d" >>),
                      subState |-> Str(<< "W", "O", "R", "K", "I", "N", "G" >>) ],
      seg |-> "unload", sub |-> "working" ] }

\* setData inputs: a sampled payload, and one of two whose subState decides
ClassifyInputs ==
  { << MarkerWith(1, a.popupData), MarkerWith(2, b.popupData) >> :
      a \in ClassifySamples,
      b \in { x \in ClassifySamples : x.sub \in { "idle", "long idling" } } }

ClassifyOptions == { [ autoZoom |-> FALSE ] }

InitClassify ==
  \E opts \in ClassifyOptions : InitWith(opts, << >>, DefaultMinCameraHeight, 1)

NextClassify == \E ms \in ClassifyInputs : setData(ms)

SpecClassify == InitClassify /\ [][NextClassify]_vars

\* ---- overlapping handlers: cluster clicks, a marker click and dispose() while a
\* ---- decluster zoom is suspended at one of its awaits

OverlapOptions == { [ minSeparationPx |-> MaxPx - 1, maxZoomIters |-> k ] : k \in 0..1 }
\* two co-located markers (the cluster) and one marker elsewhere, never clustered
OverlapData == { << Marker(1, "L"), Marker(1, "SI"), Marker(2, "L") >> }
OverlapLayout == [ k \in { 1 } |-> { 1, 2 } ]

InitOverlap ==
  \E opts \in OverlapOptions, data \in OverlapData :
    InitWith(opts, data, DefaultMinCameraHeight, 1)

NextOverlap ==
  \/ ClusterPassWith(OverlapLayout)
  \/ \E k \in DOMAIN OverlapLayout : ClusterClickWithin(k, MaxOverlap)
  \/ \E e \in { 3 } : MarkerClick(e, { e })
  \/ \E i \in 1..MaxOverlap : FlyResolve(i, "complete")
  \/ PostRender
  \/ DisposeBegin
  \/ DisposeFinish

SpecOverlap == InitOverlap /\ [][NextOverlap]_vars

\* ------------------------------------------------------------------ claims

\* C1. One decluster session (zoomToSeparate) runs at most maxSteps loop iterations
\* and issues at most maxSteps + 1 camera flights, whatever separations are measured
\* and however each flight ends.
C1_FlightsBounded ==
  \A i \in 1..Len(sessions) :
    sessions[i].kind = "separate" =>
      /\ sessions[i].step <= sessions[i].maxSteps
      /\ sessions[i].shrinks <= sessions[i].maxSteps
      /\ sessions[i].flies <= sessions[i].maxSteps + 1

\* a session whose last allowed flight was cancelled and that goes on
C1_Witness ==
  /\ lastOp.name = "flyResolve" /\ lastOp.input = "cancel"
  /\ \E i \in 1..Len(sessions) :
       /\ sessions[i].kind = "separate"
       /\ sessions[i].maxSteps >= 1
       /\ sessions[i].flies = sessions[i].maxSteps + 1
       /\ sessions[i].pc = "renderA"

\* C2. Whenever the popup is Single or Carousel, the active repositioning
\* subscription repositions the popup against the anchor of the current state, also
\* after a marker click replaced a shown popup without a hide in between.
C2_TrackingFollowsAnchor ==
  PopupForm(popup) # "Empty" =>
    /\ popup.ticks # << >>
    /\ \A i \in 1..Len(popup.ticks) : popup.ticks[i] = CurrentAnchor(popup)

\* C3. At most one popup repositioning subscription is registered on the
\* render-completed event: exactly one while the popup is Single or Carousel, none
\* while it is Empty.
C3_OneSubscription ==
  Len(popup.ticks) = IF PopupForm(popup) = "Empty" THEN 0 ELSE 1

\* C4. The popup is in exactly one of the forms Empty, Single, Carousel: popupAnchor
\* and the carousel are never both set, and the popup element is displayed only when
\* one of them is set.
C4_OneForm ==
  /\ ~(popup.anchor # None /\ popup.carousel.set)
  /\ popup.display = "block" => (popup.anchor # None \/ popup.carousel.set)

\* a marker click turned a shown single popup into a carousel
C4_Witness ==
  /\ lastOp.name = "markerClick" /\ lastOp.before = "Single"
  /\ popup.carousel.set /\ popup.display = "block"

\* the popup is Empty: no anchor, no carousel, not displayed
PopupEmpty == PopupForm(popup) = "Empty" /\ popup.display = "none"

\* C5. A background click, a right-click, or an Escape key press while the popup is
\* shown leaves the popup Empty, from any popup state.
C5_DismissEmpties ==
  ( \/ lastOp.name \in { "backgroundClick", "rightClick" }
    \/ lastOp.name = "keyDown" /\ lastOp.input = "Escape" /\ lastOp.before # "Empty" )
  => PopupEmpty

\* Escape closed a shown carousel
C5_Witness ==
  /\ lastOp.name = "keyDown" /\ lastOp.input = "Escape" /\ lastOp.before = "Carousel"
  /\ PopupEmpty

RECURSIVE IterateNext(_, _)
\* k consecutive "next" operations
IterateNext(p, k) == IF k = 0 THEN p ELSE IterateNext(carouselNext(p), k - 1)

\* C6. Carousel navigation is cyclic and stays in range: for M members the index is
\* in 0..M-1, M consecutive next operations return to the starting index, and one
\* previous from index 0 gives M-1.
C6_CarouselCyclic ==
  popup.carousel.set =>
    LET n == Len(popup.carousel.entities)
    IN /\ popup.carousel.index \in 0..(n - 1)
       /\ IterateNext(popup, n).carousel.index = popup.carousel.index
       /\ popup.carousel.index = 0 => carouselPrev(popup).carousel.index = n - 1

\* ArrowLeft wrapped a carousel of three members from index 0 to index 2
C6_Witness ==
  /\ lastOp.name = "keyDown" /\ lastOp.input = "ArrowLeft"
  /\ popup.carousel.set
  /\ Len(popup.carousel.entities) = 3
  /\ popup.carousel.index = 2

\* C7, as stated. A sequence of altitude samples that crosses the threshold exactly
\* once causes exactly one enablement toggle and exactly one forced refresh.
C7_OneCrossingOneToggle ==
  gateLog.crossings = 1 => gateLog.toggles = 1 /\ gateLog.refreshes = 1

\* the gate's part of a render notification: toggle and forced refresh exactly when
\* the desired state differs from the applied one, nothing touched otherwise
GateStepRight ==
  (lastOp'.name = "postRender" /\ gateSub.listeners > 0) =>
    LET should == cameraHeight >= options.minCameraHeightForClustering
    IN IF should # clusteringRuntimeEnabled
       THEN /\ clusteringRuntimeEnabled' = should
            /\ clustering'.enabled = (should /\ options.enabled)
            /\ clustering'.dirty
            /\ gateLog'.toggles = gateLog.toggles + 1
            /\ gateLog'.refreshes = gateLog.refreshes + 1
       ELSE /\ clusteringRuntimeEnabled' = clusteringRuntimeEnabled
            /\ clustering' = clustering
            /\ gateLog'.toggles = gateLog.toggles
            /\ gateLog'.refreshes = gateLog.refreshes

\* toggles and forced refreshes of the gate: one per crossing, and one more for a
\* first sample below the threshold (the applied state starts as enabled)
GateCounts ==
  /\ gateLog.toggles = gateLog.crossings + (IF gateLog.first = "low" THEN 1 ELSE 0)
  /\ gateLog.refreshes = gateLog.toggles

\* C7, amended. The gate changes the flag and forces a refresh only on a render
\* notification whose desired state differs from the applied state and leaves both
\* untouched otherwise; the applied state starts as enabled, so the gate toggles and
\* refreshes once per crossing, plus once on the first sample when that sample is
\* below the threshold.
C7_TogglesFollowCrossings == [][GateStepRight]_vars /\ []GateCounts

\* three or more samples that start above the threshold and cross it once: one
\* toggle, one forced refresh
C7_Witness ==
  /\ gateLog.samples >= 3
  /\ gateLog.first = "high"
  /\ gateLog.crossings = 1
  /\ gateLog.toggles = 1 /\ gateLog.refreshes = 1

\* C8. After every render-completed notification the host clustering flag is enabled
\* exactly when the altitude is >= minCameraHeightForClustering and options.enabled
\* holds, for every interleaving with configureClustering and setData.
C8_FlagMatchesAltitude ==
  (lastOp.name = "postRender" /\ gateSub.listeners > 0) =>
    (clustering.enabled <=>
       (cameraHeight >= options.minCameraHeightForClustering /\ options.enabled))

\* C9. After dispose() completes no subscription of the layer remains registered
\* (cluster styler, click handler, window resize, media-query and keydown listeners,
\* camera-height subscription), the membership table and the marker ids are empty,
\* and the popup is Empty.
C9_DisposeRemovesAll ==
  lastOp.name = "disposeFinish" =>
    /\ clustering.listeners = 0
    /\ clickHandler = "undefined"
    /\ win.resize = 0 /\ win.media = {} /\ win.keydown = 0
    /\ gateSub.listeners = 0
    /\ clusterMembers = NoClusters
    /\ store.markerIds = {}
    /\ PopupEmpty /\ popup.ticks = << >>

\* what dispose() acts on: subscriptions, membership table, marker ids, popup
LayerState ==
  << clustering.listeners, clickHandler, store.attached, store.markerIds,
     clusterMembers, popup, win, gateSub >>

\* C10. dispose() is idempotent: a second or later call raises no error and leaves
\* the layer state as it was after the first call.
C10_DisposeIdempotent ==
  [][ (disposal.done >= 1 /\ lastOp'.name \in { "disposeBegin", "disposeFinish" })
        => (LayerState' = LayerState /\ threw' = threw) ]_vars

\* a second dispose() ran to its end without an error
C10_Witness ==
  lastOp.name = "disposeFinish" /\ disposal.done = 2 /\ ~threw

RECURSIVE Ascending(_)
\* the ids of a set in ascending order (the order in which setData created them)
Ascending(S) ==
  IF S = {} THEN << >>
  ELSE LET m == CHOOSE x \in S : \A y \in S : x <= y
       IN << m >> \o Ascending(S \ {m})

\* what a store holds: the position and payload of its markers, in creation order
StoreContent(st) ==
  LET ids == Ascending(st.markerIds)
  IN [ i \in 1..Len(ids) |->
         [ place |-> st.place[ids[i]], popup |-> st.popup[ids[i]] ] ]

\* what the entries of ms with finite coordinates describe, in order
FiniteContent(ms) ==
  LET fin == SelectSeq(ms, LAMBDA m : m.latFinite /\ m.lngFinite)
  IN [ i \in 1..Len(fin) |->
         [ place |-> fin[i].place,
           popup |-> [ segmentDesc |-> Coalesce(fin[i].popupData.segmentDesc, Null),
                       subState |-> Coalesce(fin[i].popupData.subState, Null) ] ] ]

\* C11. After setData(ms), whatever the prior state, the marker store (entities and
\* marker-id set) holds exactly one marker per entry of ms with finite lat and lng,
\* the other entries are skipped without error, and the membership table is empty;
\* so setData(ms) twice gives the same store content as once, and setData([])
\* leaves the store empty.
C11_SetDataReplaces ==
  /\ lastOp.name = "setData" =>
        /\ store.markerIds = store.entities
        /\ StoreContent(store) = FiniteContent(lastOp.input)
        /\ clusterMembers = NoClusters
        /\ ~threw
  /\ \A ms \in StoreInputs :
        LET once == SetDataStore(store, ms)
            twice == SetDataStore(once, ms)
        IN /\ StoreContent(twice) = StoreContent(once)
           /\ twice.markerIds = twice.entities
  /\ LET none == SetDataStore(store, << >>)
     IN none.markerIds = {} /\ none.entities = {}

\* setData replaced earlier markers by the one finite entry of a list that also
\* holds a non-finite entry
C11_Witness ==
  /\ lastOp.name = "setData"
  /\ Len(lastOp.input) = 2 /\ ~lastOp.input[1].latFinite
  /\ store.markerIds # {} /\ 1 \notin store.markerIds
  /\ Len(StoreContent(store)) = 1

\* C12. After construction and any sequence of configureClustering calls in which
\* minSeparationPx is never supplied, options.minSeparationPx equals
\* options.pixelRange + 4, for every integer pixelRange >= 0 supplied at construction
\* or in a later call.
C12_SeparationDerived ==
  options.minSeparationPx = options.pixelRange + SeparationMargin

\* C13. A left click whose picked id is a cluster of the current layout invokes
\* onClusterClick exactly once, with that cluster's full member list, and does not
\* invoke onMarkerClick; no single click invokes both callbacks.
C13_ClusterClickRoutes ==
  /\ lastOp.name = "clusterClick" =>
        lastOp.calls = << Call("onClusterClick", hostClusters[lastOp.input]) >>
  /\ Len(lastOp.calls) <= 1

\* C14. The membership table is fully rebuilt on every cluster-refresh pass: after a
\* pass its keys are exactly the clusters the host styled in that pass, and no entry
\* of an earlier pass remains.
C14_TableRebuilt ==
  lastOp.name = "clusterPass" =>
    DOMAIN clusterMembers =
      { clusterKeyFrom(ArrayId(hostClusters[c])) : c \in DOMAIN hostClusters }

RECURSIVE SumOver(_, _)
\* the sum of f over the keys S
SumOver(f, S) ==
  IF S = {} THEN 0
  ELSE LET k == CHOOSE x \in S : TRUE IN f[k] + SumOver(f, S \ {k})

\* the members of a list whose stored category is cat
MembersOf(members, cat) == { i \in 1..Len(members) : store.cat[members[i]] = cat }

\* C15. For every cluster of N members, the per-category counts of buildBuckets sum
\* to N, and the rows of its badge hold exactly one row per category with a count
\* above 0, carrying that count, and no row for a category with count 0.
C15_BucketsAndRows ==
  \A k \in DOMAIN billboards :
    billboards[k].show =>
      LET members == hostClusters[k]
          rows == billboards[k].rows
      IN /\ SumOver(buildBuckets(store, members).counts, AllCats) = Len(members)
         /\ \A cat \in AllCats :
              LET at == { i \in 1..Len(rows) : rows[i].label = cat }
              IN IF MembersOf(members, cat) = {} THEN at = {}
                 ELSE /\ Cardinality(at) = 1
                      /\ \A i \in at : rows[i].count = Cardinality(MembersOf(members, cat))

\* a styled cluster of six members in three categories: counts 2, 1 and 3
C15_Witness ==
  /\ lastOp.name = "clusterPass"
  /\ 1 \in DOMAIN billboards /\ billboards[1].show
  /\ Len(hostClusters[1]) = 6
  /\ [ i \in 1..Len(billboards[1].rows) |-> billboards[1].rows[i].count ] = << 2, 1, 3 >>

\* the categories present among the members of cluster k
NonZeroCategories(k) ==
  { cat \in AllCats : \E i \in 1..Len(hostClusters[k]) : store.cat[hostClusters[k][i]] = cat }

\* from one styling of the cluster to the next, under one style: a badge has as many
\* rows as its cluster has categories, and one row more on a badge of at least
\* `least` rows makes it one row height and one row gap higher
BadgeGrowsFrom(least) ==
  ( /\ 1 \in DOMAIN billboards /\ billboards[1].show
    /\ 1 \in DOMAIN billboards' /\ billboards'[1].show
    /\ options' = options )
  => /\ Len(billboards'[1].rows) = Cardinality(NonZeroCategories(1)')
     /\ ( /\ Len(billboards[1].rows) >= least
          /\ Len(billboards'[1].rows) = Len(billboards[1].rows) + 1 )
        => billboards'[1].height - billboards[1].height
             = RowHeight(options.badgeStyle) + RowGap(options.badgeStyle)

\* C16. With the style held constant, the badge has as many rows as there are
\* non-zero categories, and its height grows by exactly one row height plus one row
\* gap each time one more non-zero category is added, for every number of non-zero
\* categories from 1 to 8; a badge without rows is as high as a badge of one row.
C16_HeightPerRow ==
  [][ /\ BadgeGrowsFrom(1)
      /\ ( /\ 1 \in DOMAIN billboards /\ billboards[1].show
           /\ 1 \in DOMAIN billboards' /\ billboards'[1].show
           /\ options' = options
           /\ Len(billboards[1].rows) = 0
           /\ Len(billboards'[1].rows) = 1 )
         => billboards'[1].height = billboards[1].height ]_vars

\* a badge of eight rows under a style with fractional numbers
C16_Witness ==
  /\ lastOp.name = "clusterPass"
  /\ 1 \in DOMAIN billboards /\ billboards[1].show
  /\ Len(billboards[1].rows) = 8
  /\ options.badgeStyle.fontPx = 125

\* C16 as stated: the growth by one row height plus one row gap holds from 0
\* categories on
C16_HeightGrowsFromZero == [][BadgeGrowsFrom(0)]_vars

\* the reference rule, on segmentDesc and subState already trimmed and lower-cased
ReferenceCategory(seg, sub) ==
  IF seg = "load" THEN "L"
  ELSE IF seg = "dump" THEN "D"
  ELSE CASE sub = "working" -> "W"
         [] sub = "productive idling" -> "PL"
         [] sub = "short idling" -> "SI"
         [] sub = "medium idling" -> "MI"
         [] sub = "long idling" -> "LI"
         [] sub = "engine stop" -> "ES"
         [] OTHER -> "SI"

\* the samples whose payload setData stores as pd
SamplesOf(pd) ==
  { x \in ClassifySamples :
      /\ Coalesce(x.popupData.segmentDesc, Null) = pd.segmentDesc
      /\ Coalesce(x.popupData.subState, Null) = pd.subState }

\* C17. classify is total and equals the reference rule for every payload: load or
\* dump in segmentDesc (trimmed, lower-cased) decides whatever subState holds;
\* otherwise subState (trimmed, lower-cased) goes through the fixed table, and a
\* value outside the table gives SI; the result is a member of the closed set.
C17_ClassifyIsReference ==
  /\ ~threw
  /\ \A e \in store.entities :
       /\ store.cat[e] \in AllCats
       /\ SamplesOf(store.popup[e]) # {}
       /\ \A x \in SamplesOf(store.popup[e]) : store.cat[e] = ReferenceCategory(x.seg, x.sub)

\* setData classified a padded upper-case load whose subState says working, and a
\* payload whose subState is unknown
C17_Witness ==
  /\ lastOp.name = "setData"
  /\ \E e \in store.entities :
       /\ store.popup[e].segmentDesc = Str(<< " ", " ", "L", "O", "A", "D", " " >>)
       /\ store.popup[e].subState.type = "string"
       /\ store.cat[e] = "L"
  /\ \E e \in store.entities :
       /\ store.popup[e].subState = Str(<< "I", "d", "l", "e" >>)
       /\ store.cat[e] = "SI"

\* C18. zoomTo() never surfaces a failure: its call and its settling, whether the
\* host's zoom resolves, rejects or raises, leave the marker store as it was, raise
\* nothing and reject no promise; so zoomTo() after setData([]) ends without error
\* and with an empty store.
C18_ZoomToSwallows ==
  [][ lastOp'.name \in { "zoomTo", "zoomToSettle" } =>
        /\ store' = store
        /\ threw' = threw /\ ~threw'
        /\ ~zoomTos'.rejected ]_vars

\* on a layer without autoZoom whose markers a later setData removed, a zoomTo() call
\* has settled on a rejection of the host's zoom
C18_Witness ==
  /\ lastOp.name = "zoomToSettle" /\ lastOp.input = "reject"
  /\ ~options.autoZoom
  /\ Len(store.place) > 0
  /\ store.entities = {} /\ store.markerIds = {}
  /\ zoomTos.pending = 0

\* C19. A decluster session stops shrinking only when the measured separation meets
\* the target, maxSteps is reached, or the improvement since the previous iteration
\* is below 1 pixel; so a session that has ended, in which every shrink raised the
\* separation on screen by at least 1 pixel and left it below the target, has made
\* maxSteps shrink steps.
C19_ShrinksWhileImproving ==
  \A i \in 1..Len(sessions) :
    ( /\ sessions[i].kind = "separate"
      /\ sessions[i].pc = "done"
      /\ sessions[i].improving
      /\ ~SeparationReached(sessions[i].seenPx, sessions[i].targetMinPx) )
    => sessions[i].shrinks = sessions[i].maxSteps

\* the step a session is at after a flight that completed
AfterCompletedFlight(pc) ==
  CASE pc = "fly0" -> "render0"
    [] pc = "flyL" -> "renderA"
    [] pc = "flyOnce" -> "done"

\* a flight of one session ended, however it ended: the session is at the step that
\* follows a completed flight, nothing else of it changed, and nothing was raised
FlightEndContinues ==
  lastOp'.name = "flyResolve" =>
    /\ threw' = threw
    /\ Len(sessions') = Len(sessions)
    /\ \E i \in 1..Len(sessions) :
         /\ AwaitsFlight(sessions[i])
         /\ sessions' = [ sessions EXCEPT ![i] =
                            [ @ EXCEPT !.pc = AfterCompletedFlight(sessions[i].pc),
                                       !.events = Append(@, "landed") ] ]

\* C20. When every camera flight eventually completes or is cancelled and render
\* notifications keep occurring, every decluster session eventually terminates; a
\* cancelled flight or a fly call that throws does not abort the session, which
\* goes on with the same following steps as after a completed flight.
C20_SessionsTerminate ==
  /\ \A i \in 1..MaxSessions :
       (i <= Len(sessions) /\ sessions[i].pc # "done")
         ~> (i <= Len(sessions) /\ sessions[i].pc = "done")
  /\ [][FlightEndContinues]_vars

\* a session whose shrink flight failed with an error of the fly call and that waits
\* for the next render notification
C20_Witness ==
  /\ lastOp.name = "flyResolve" /\ lastOp.input = "throw"
  /\ \E i \in 1..Len(sessions) :
       /\ sessions[i].kind = "separate"
       /\ sessions[i].shrinks = 1
       /\ sessions[i].pc = "renderA"

\* the events of a session from position j on, as far as they have happened
EventsFrom(s, j) == SubSeq(s.events, j, Len(s.events))

\* xs and ys agree wherever both hold an element
AgreeOnPrefix(xs, ys) ==
  \A k \in 1..Len(xs) : k <= Len(ys) => xs[k] = ys[k]

\* what follows a shrink in one loop iteration
IterationOrder == << "shrink", "fly", "landed", "render", "refresh", "render", "measure" >>

C22_MixedShrinksLess ==
  \A i \in 1..Len(sessions) :
    LET s == sessions[i]
        cats == { store.cat[s.members[k]] : k \in 1..Len(s.members) }
    IN s.kind = "separate" =>
         /\ s.perStepFactor = IF Cardinality(cats) > 1
                              THEN options.mixedExtraZoomFactor
                              ELSE options.singleExtraZoomFactor
         /\ ( /\ Cardinality(cats) > 1
              /\ s.shrinks = 1
              /\ options.mixedExtraZoomFactor = DefaultMixedExtraZoomFactor
              /\ options.singleExtraZoomFactor = DefaultSingleExtraZoomFactor )
            => s.rect >= shrinkRectangle(s.rect0, options.singleExtraZoomFactor)

\* the members of cluster k with category cat and dot color col, by position
WithColor(k, cat, col) ==
  { i \in 1..Len(hostClusters[k]) :
      /\ store.cat[hostClusters[k][i]] = cat
      /\ store.dotColor[hostClusters[k][i]] = col }

\* the dot colors of the members of cluster k that have category cat
ColorsAmong(k, cat) ==
  { store.dotColor[hostClusters[k][i]] :
      i \in { j \in 1..Len(hostClusters[k]) : store.cat[hostClusters[k][j]] = cat } }

\* the position of the first member in a non-empty set of positions
FirstOf(S) == CHOOSE i \in S : \A j \in S : i <= j

\* C23. For every category with at least one member, the representative color of
\* buildBuckets (the dot color of the category's badge row) is a color of highest
\* frequency among the category's members, and among the colors tied for the highest
\* frequency the one that appears first in member order; a category without members
\* gets no representative color.
C23_ModeColorFirstWins ==
  \A k \in DOMAIN billboards :
    billboards[k].show =>
      LET b == buildBuckets(store, hostClusters[k])
      IN /\ DOMAIN b.dotCss = { cat \in AllCats : ColorsAmong(k, cat) # {} }
         /\ \A i \in 1..Len(billboards[k].rows) :
              billboards[k].rows[i].dotCss = b.dotCss[billboards[k].rows[i].label]
         /\ \A cat \in DOMAIN b.dotCss :
              /\ b.dotCss[cat] \in ColorsAmong(k, cat)
              /\ \A col \in ColorsAmong(k, cat) \ { b.dotCss[cat] } :
                   \/ Cardinality(WithColor(k, cat, col))
                        < Cardinality(WithColor(k, cat, b.dotCss[cat]))
                   \/ /\ Cardinality(WithColor(k, cat, col))
                          = Cardinality(WithColor(k, cat, b.dotCss[cat]))
                      /\ FirstOf(WithColor(k, cat, b.dotCss[cat]))
                          < FirstOf(WithColor(k, cat, col))

\* a badge whose Load row is red: red and blue both occur twice among the Load
\* members and red occurs first; its Short Idling row is green, the more frequent
C23_Witness ==
  /\ lastOp.name = "clusterPass"
  /\ 1 \in DOMAIN billboards /\ billboards[1].show
  /\ Len(hostClusters[1]) = 7
  /\ billboards[1].rows =
       << [ label |-> "L", count |-> 4, dotCss |-> "red" ],
          [ label |-> "SI", count |-> 3, dotCss |-> "green" ] >>

\* the markers among the picks that lie at the place of the clicked marker
CoLocated(entity, picks) ==
  { m \in picks \cap store.markerIds : store.place[m] = store.place[entity] }

\* the popup after a left click on a marker of the store
MarkerClickOpens(entity, picks) ==
  IF Cardinality(CoLocated(entity, picks)) >= 2
  THEN /\ PopupForm(popup') = "Carousel"
       /\ popup'.carousel.index = 0
       /\ popup'.carousel.anchor = entity
       /\ { popup'.carousel.entities[i] : i \in 1..Len(popup'.carousel.entities) }
            = CoLocated(entity, picks)
  ELSE options.popupEnabled =>
         /\ PopupForm(popup') = "Single"
         /\ popup'.anchor = entity

\* C24. A left click on a marker, from any popup state, leads to Carousel (index 0,
\* anchor = the clicked marker, members = all markers under the click point within
\* the distance epsilon of the clicked marker) when two or more markers are
\* co-located at the click, and to Single with the clicked marker as anchor when no
\* other marker is co-located and popups are enabled.
C24_MarkerClickOpens ==
  [][ \A entity \in EntityIds, picks \in SUBSET EntityIds :
        (MarkerClick(entity, picks) /\ entity \in store.markerIds)
          => MarkerClickOpens(entity, picks) ]_vars

\* the activations of the decluster zoom that have not returned
InProgress(ss) == { i \in 1..Len(ss) : ss[i].pc # "done" }

\* C25. At most one decluster session is in progress at any time: a cluster click
\* that arrives while an earlier session is suspended at one of its awaits does not
\* start a second session interleaving its flights and refreshes with the first's.
C25_OneSessionAtATime == Cardinality(InProgress(sessions)) <= 1

\* the step returns from a decluster zoom (the click handler resumes after its await)
SessionReturns ==
  \E i \in InProgress(sessions) : i <= Len(sessions') /\ sessions'[i].pc = "done"

\* C26. A popup opened by a marker click while a decluster session is suspended
\* stays in Single or Carousel, with its anchor, when that session completes.
C26_PopupSurvivesSession ==
  [][ ( /\ lastOp.name = "markerClick"
        /\ PopupForm(popup) \in { "Single", "Carousel" }
        /\ SessionReturns )
        => /\ PopupForm(popup') = PopupForm(popup)
           /\ popup'.anchor = popup.anchor ]_vars

\* C27. Once dispose() has completed, the layer initiates no further camera flight
\* and no further forced cluster refresh, also when a decluster session was
\* suspended at an await when dispose() was called.
C27_QuietAfterDispose ==
  [][ (disposal.done > 0 /\ disposal.pending = 0)
        => \A i \in 1..Len(sessions) :
             i <= Len(sessions')
               => /\ sessions'[i].flies <= sessions[i].flies
                  /\ sessions'[i].refreshes <= sessions[i].refreshes ]_vars

\* the markers a shown popup refers to: its anchor and, in a carousel, the members
PopupMarkers(p) ==
  IF PopupForm(p) = "Carousel"
  THEN { p.carousel.anchor }
         \cup { p.carousel.entities[i] : i \in 1..Len(p.carousel.entities) }
  ELSE IF PopupForm(p) = "Single" THEN { p.anchor }
  ELSE { }

\* C28. Whenever the popup is in Single or Carousel, its anchor and every carousel
\* member is a marker currently in the store; after setData() replaces the marker
\* set no popup remains shown for a marker of the previous set.
C28_PopupMarkersInStore == PopupMarkers(popup) \subseteq store.markerIds

====
